---- MODULE Spec2Model ----
(***************************************************************************)
(* Verification model of the CernAtlasSBOM version gate.                   *)
(*                                                                         *)
(* Strings that the code only compares for equality or sorts as dictionary *)
(* keys / component names are TLA+ strings ("atoms") ordered by AtomOrder, *)
(* which lists them in Python's code-point order.  Strings that the code   *)
(* takes apart (directory names, versions, build-log values, report cells) *)
(* are sequences of one-character strings ordered by CharOrder.            *)
(***************************************************************************)
EXTENDS Integers, Sequences, FiniteSets, TLC

VARIABLES
    project,    \* the project directory this behaviour works in
    fs,         \* the project's version roots: output dir name -> NoDir or directory
    cand,       \* candidate files in the project directory (written by a generator)
    log,        \* externalBuild.txt of the project: NoFile or a sequence of lines
    now,        \* clock, the source of timestamps and modification times
    pc,         \* position of every process in its run
    loc,        \* local variables of every process
    hist,       \* record of the runs that have ended (history, not program state)
    fargs,      \* arguments of the pure function under evaluation
    fres,       \* its result
    gen,        \* a generator object, its inputs and its side files
    cwd         \* the working directory of the server process

vars == <<project, fs, cand, log, now, pc, loc, hist, fargs, fres, gen, cwd>>

---------------------------------------------------------------------------
(* Bounds of the model                                                     *)

MaxVersion == 3
MaxClock == 4
MaxErrors == 1
MaxEntries == 3
MaxComponents == 3
MaxProperties == 2

---------------------------------------------------------------------------
(* Python values                                                           *)

\* Optional values carry a tag, so that a present and an absent value compare.
NoFile == [exists |-> FALSE]
NoDir == [exists |-> FALSE]
ValueError == [ok |-> FALSE, val |-> 0]
IntOk(n) == [ok |-> TRUE, val |-> n]

\* Characters in code-point order.
CharOrder ==
    << " ", "+", "-", ".", "0", "1", "2", "3", "4", "5", "6", "7", "8", "9",
       "N", "_", "a", "b", "c", "d", "e", "f", "g", "i", "k", "n", "o", "u",
       "v", "w", "x", "|" >>

CharRank(c) == CHOOSE i \in 1..Len(CharOrder) : CharOrder[i] = c

\* Atoms in code-point order (Python's str comparison).
AtomOrder ==
    << "", "AnalysisBase", "AnalysisBaseExternals", "Athena", "Boost",
       "C Compiler", "CXX Compiler", "LCG Version", "Platform", "ROOT",
       "boost", "build_info", "components", "lcg_version", "numpy",
       "platform", "properties", "root" >>

AtomRank(a) == CHOOSE i \in 1..Len(AtomOrder) : AtomOrder[i] = a

\* str < str on character sequences: lexicographic by code point.
RECURSIVE StrLess(_, _)
StrLess(a, b) ==
    IF b = << >> THEN FALSE
    ELSE IF a = << >> THEN TRUE
    ELSE IF Head(a) = Head(b) THEN StrLess(Tail(a), Tail(b))
    ELSE CharRank(Head(a)) < CharRank(Head(b))

\* tuple < tuple for (atom, character sequence) pairs.
PairLess(p, q) ==
    \/ AtomRank(p[1]) < AtomRank(q[1])
    \/ p[1] = q[1] /\ StrLess(p[2], q[2])

\* sorted(list of pairs)
Sorted(s) == SortSeq(s, PairLess)

Max(S) == CHOOSE x \in S : \A y \in S : y <= x

\* All orders in which the elements of a finite set can be enumerated.
Orders(S) ==
    {s \in [1..Cardinality(S) -> S] : \A i, j \in 1..Cardinality(S) : s[i] = s[j] => i = j}

\* str.strip() / lstrip() / rstrip() for the blank character.
RECURSIVE LStrip(_)
LStrip(s) == IF s # << >> /\ Head(s) = " " THEN LStrip(Tail(s)) ELSE s

RECURSIVE RStrip(_)
RStrip(s) ==
    IF s # << >> /\ s[Len(s)] = " " THEN RStrip(SubSeq(s, 1, Len(s) - 1)) ELSE s

Strip(s) == RStrip(LStrip(s))

---------------------------------------------------------------------------
(* int(str) and str(int)                                                   *)

Digits == <<"0", "1", "2", "3", "4", "5", "6", "7", "8", "9">>

IsDigit(c) == \E i \in 1..10 : Digits[i] = c

DigitVal(c) == (CHOOSE i \in 1..10 : Digits[i] = c) - 1

\* A digit string with single underscores between digits (PEP 515).
RECURSIVE IsDigitString(_)
IsDigitString(s) ==
    /\ s # << >>
    /\ IsDigit(Head(s))
    /\ \/ Len(s) = 1
       \/ IsDigitString(Tail(s))
       \/ Len(s) >= 3 /\ s[2] = "_" /\ IsDigitString(Tail(Tail(s)))

RECURSIVE DigitsValue(_, _)
DigitsValue(s, acc) ==
    IF s = << >> THEN acc
    ELSE IF Head(s) = "_" THEN DigitsValue(Tail(s), acc)
    ELSE DigitsValue(Tail(s), 10 * acc + DigitVal(Head(s)))

\* int(s): surrounding blanks are dropped, one sign is allowed, the rest must
\* be a digit string; anything else raises ValueError.
PyInt(s) ==
    LET t == Strip(s)
        signed == t # << >> /\ Head(t) \in {"+", "-"}
        body == IF signed THEN Tail(t) ELSE t
    IN  IF ~IsDigitString(body) THEN ValueError
        ELSE IF signed /\ Head(t) = "-" THEN IntOk(0 - DigitsValue(body, 0))
        ELSE IntOk(DigitsValue(body, 0))

RECURSIVE NatStr(_)
NatStr(n) == IF n < 10 THEN <<Digits[n + 1]>> ELSE NatStr(n \div 10) \o <<Digits[(n % 10) + 1]>>

\* str(n) as used by the f-string f'v{n}'
PyStr(n) == IF n < 0 THEN <<"-">> \o NatStr(0 - n) ELSE NatStr(n)

\* f'v{n}'
VName(n) == <<"v">> \o PyStr(n)

---------------------------------------------------------------------------
(* Files and directories                                                   *)

\* A file: its content and its modification time.
File(data, mtime) == [exists |-> TRUE, data |-> data, mtime |-> mtime]

\* A directory entry: a sub-directory with its files (file name -> File), or
\* a regular file (isDir = FALSE).
DirEntry(files) == [isDir |-> TRUE, files |-> files]
FileEntry == [isDir |-> FALSE, files |-> << >>]

\* A version root: NoDir, or its entries (entry name -> entry).
Dir(entries) == [exists |-> TRUE, entries |-> entries]
EmptyDir == Dir(<< >>)

Entries(root) == IF root.exists THEN root.entries ELSE << >>

HasFile(entry, name) == entry.isDir /\ name \in DOMAIN entry.files

\* The file names the programs use.
JsonNames == {"stat-analysis-sbom.json", "statanalysis-sbom.json",
              "analysisbase-sbom.json", "athena-sbom.json"}

\* Path.with_suffix('.md')
with_suffix_md(json_name) ==
    CASE json_name = "stat-analysis-sbom.json" -> "stat-analysis-sbom.md"
      [] json_name = "statanalysis-sbom.json" -> "statanalysis-sbom.md"
      [] json_name = "analysisbase-sbom.json" -> "analysisbase-sbom.md"
      [] json_name = "athena-sbom.json" -> "athena-sbom.md"

\* f'{sbom_type.lower()}-sbom.json' of create_sbom
WebJsonName(sbom_type) ==
    IF sbom_type = "AnalysisBase" THEN "analysisbase-sbom.json" ELSE "statanalysis-sbom.json"

\* The candidate and stored file name of the two version_sbom.py scripts.
MainJsonName(proj) ==
    IF proj = "Athena" THEN "athena-sbom.json" ELSE "stat-analysis-sbom.json"

---------------------------------------------------------------------------
(* Version numbering                                                       *)

\* item.is_dir() and item.name.startswith('v'), and int(item.name[1:]) does
\* not raise ValueError.
IsVersionDir(entries, name) ==
    /\ entries[name].isDir
    /\ name # << >>
    /\ Head(name) = "v"
    /\ PyInt(Tail(name)).ok

VersionNum(name) == PyInt(Tail(name)).val

VersionNums(entries) ==
    {VersionNum(n) : n \in {m \in DOMAIN entries : IsVersionDir(entries, m)}}

\* A mutant: the maximum itself, not its successor.
get_next_version_number_reuse(root) ==
    IF ~root.exists THEN 1
    ELSE IF VersionNums(root.entries) = {} THEN 1
    ELSE Max(VersionNums(root.entries))

\* get_next_version_number(base_dir, sboms_dir) on the root base_dir/sboms_dir
get_next_version_number(root) ==
    IF ~root.exists THEN 1
    ELSE IF VersionNums(root.entries) = {} THEN 1
    ELSE Max(VersionNums(root.entries)) + 1

\* The loop of main() over sboms_dir.iterdir(), listing the entries in the
\* order `order`: max_version starts at 0 and most_recent_dir at None, and an
\* entry replaces them only when its number is strictly greater.
RECURSIVE MainScanFrom(_, _, _)
MainScanFrom(entries, order, acc) ==
    IF order = << >> THEN acc
    ELSE LET item == Head(order)
             hit == /\ IsVersionDir(entries, item)
                    /\ VersionNum(item) > acc.max_version
         IN  MainScanFrom(entries, Tail(order),
                 IF hit
                 THEN [max_version |-> VersionNum(item), found |-> TRUE,
                       most_recent_dir |-> item]
                 ELSE acc)

MainScan(entries, order) ==
    MainScanFrom(entries, order,
                 [max_version |-> 0, found |-> FALSE, most_recent_dir |-> << >>])

\* next_version = max_version + 1
MainNextVersion(scan) == scan.max_version + 1

---------------------------------------------------------------------------
(* Dictionaries, manifests and the signature                               *)

\* A dict is the sequence of its (key, value) items in insertion order; the
\* keys are distinct.
DictHas(d, k) == \E i \in DOMAIN d : d[i][1] = k

DictGet(d, k) == d[CHOOSE i \in DOMAIN d : d[i][1] = k][2]

\* d[k] = v: an existing key keeps its place, a new key is appended.
DictSet(d, k, v) ==
    IF DictHas(d, k)
    THEN [i \in DOMAIN d |-> IF d[i][1] = k THEN <<k, v>> ELSE d[i]]
    ELSE Append(d, <<k, v>>)

\* An optional dict argument: None, or a dict.
NoneInfo == [isNone |-> TRUE, items |-> << >>]
Info(d) == [isNone |-> FALSE, items |-> d]

\* A mutant: `if build_info is not None:`
Truthy_not_none(build_info) == ~build_info.isNone

\* `if build_info:`
Truthy(build_info) == ~build_info.isNone /\ build_info.items # << >>

\* A manifest as json.load returns it: the parts the programs read.
Manifest(components, properties, timestamp, serialNumber) ==
    [components |-> components, properties |-> properties,
     timestamp |-> timestamp, serialNumber |-> serialNumber]

Component(name, version) == [name |-> name, version |-> version]
Property(name, value) == [name |-> name, value |-> value]

\* props_dict[prop.get('name', '')] = prop.get('value', '') for every property
RECURSIVE PropsDict(_, _)
PropsDict(properties, d) ==
    IF properties = << >> THEN d
    ELSE PropsDict(Tail(properties),
                   DictSet(d, Head(properties).name, Head(properties).value))

NormalizedComponents(sbom_data) ==
    Sorted([i \in DOMAIN sbom_data.components |->
                <<sbom_data.components[i].name, sbom_data.components[i].version>>])

NormalizedProps(sbom_data) == Sorted(PropsDict(sbom_data.properties, << >>))

BuildPart(build_info) ==
    IF Truthy(build_info)
    THEN << <<"build_info", Sorted(build_info.items)>> >>
    ELSE << >>

\* A mutant: the generation timestamp is part of the signature.
get_sbom_signature_timestamp(sbom_data, build_info) ==
    << <<"components", NormalizedComponents(sbom_data)>>,
       <<"properties", NormalizedProps(sbom_data)>>,
       <<"timestamp", sbom_data.timestamp>> >> \o BuildPart(build_info)

\* get_sbom_signature(sbom_data, build_info=None); the three copies in
\* app.py and the two version_sbom.py are the same text.
get_sbom_signature(sbom_data, build_info) ==
    << <<"components", NormalizedComponents(sbom_data)>>,
       <<"properties", NormalizedProps(sbom_data)>> >> \o BuildPart(build_info)

---------------------------------------------------------------------------
(* The build log externalBuild.txt and the parsers of build information    *)

\* A line of the log is told apart by the one pattern it matches:
\*   "c"     The C compiler identification is <v>
\*   "cxx"   The CXX compiler identification is <v>
\*   "plat"  Using platform name: <v>
\*   "lcg"   LCG release "LCG_<v>" for platform: <w>
\*   "other" none of them
Line(kind, v, w) == [kind |-> kind, v |-> v, w |-> w]
OtherLine == Line("other", << >>, << >>)

LogFile(lines) == [exists |-> TRUE, lines |-> lines]

\* lines[24]: the platform name is read from the 25th line.
PlatformLineIndex == 24

\* Index of the first line of a kind, 0 when there is none.
FirstLine(lines, kind) ==
    IF \E i \in DOMAIN lines : lines[i].kind = kind
    THEN CHOOSE i \in DOMAIN lines :
            /\ lines[i].kind = kind
            /\ \A j \in 1..(i - 1) : lines[j].kind # kind
    ELSE 0

\* The compiler and platform part shared by parse_build_info_from_file and
\* the AnalysisBase generator's parse_build_info.
CompilerInfo(lines) ==
    LET d1 == IF Len(lines) > 0 /\ lines[1].kind = "c"
              THEN DictSet(<< >>, "C Compiler", lines[1].v) ELSE << >>
        d2 == IF Len(lines) > 1 /\ lines[2].kind = "cxx"
              THEN DictSet(d1, "CXX Compiler", lines[2].v) ELSE d1
        d3 == IF Len(lines) > PlatformLineIndex
                 /\ lines[PlatformLineIndex + 1].kind = "plat"
              THEN DictSet(d2, "Platform", lines[PlatformLineIndex + 1].v) ELSE d2
    IN  d3

\* parse_build_info_from_file() of Athena/version_sbom.py
parse_build_info_from_file(logfile) ==
    IF ~logfile.exists THEN << >>
    ELSE LET d == CompilerInfo(logfile.lines)
             i == FirstLine(logfile.lines, "lcg")
         IN  IF i = 0 THEN d
             ELSE DictSet(DictSet(d, "lcg_version", logfile.lines[i].v),
                          "platform", logfile.lines[i].w)

\* SBOMGenerator.parse_build_info of backend/AnalysisBase
AnalysisBase_parse_build_info(logfile) ==
    IF ~logfile.exists THEN << >> ELSE CompilerInfo(logfile.lines)

\* An optional string: None or a str.
PyNone == [none |-> TRUE, s |-> << >>]
Some(s) == [none |-> FALSE, s |-> s]

\* f"{value}"
Fmt(opt) == IF opt.none THEN <<"N", "o", "n", "e">> ELSE opt.s

LineValue(lines, i) == IF i = 0 THEN PyNone ELSE Some(lines[i].v)

\* SBOMGenerator.parse_build_info of backend/Athena: every key is always
\* present, None when the log does not give it.  The platform name is taken
\* from the first line that gives one, wherever it is.
Athena_parse_build_info(logfile) ==
    IF ~logfile.exists
    THEN [lcg_version |-> PyNone, platform |-> PyNone, c |-> PyNone,
          cxx |-> PyNone, Platform |-> PyNone]
    ELSE LET lines == logfile.lines
             i == FirstLine(lines, "lcg")
         IN  [lcg_version |-> LineValue(lines, i),
              platform |-> IF i = 0 THEN PyNone ELSE Some(lines[i].w),
              c |-> IF Len(lines) > 0 /\ lines[1].kind = "c"
                    THEN Some(lines[1].v) ELSE PyNone,
              cxx |-> IF Len(lines) > 1 /\ lines[2].kind = "cxx"
                      THEN Some(lines[2].v) ELSE PyNone,
              Platform |-> LineValue(lines, FirstLine(lines, "plat"))]

\* `not build_info.get(key)`: None and the empty string are falsy.
Falsy(opt) == opt.none \/ opt.s = << >>

---------------------------------------------------------------------------
(* Dependencies and the narrative report                                   *)

Dependency(name, version, source, file_path) ==
    [name |-> name, version |-> version, source |-> source, file_path |-> file_path]

\* str.lower() on the names of the model.
Lower(name) ==
    CASE name = "Boost" -> "boost"
      [] name = "ROOT" -> "root"
      [] name = "Platform" -> "platform"
      [] name = "Acts" -> "acts"
      [] name = "JsonMCpp" -> "jsonmcpp"
      [] name = "PyModules" -> "pymodules"
      [] OTHER -> name

\* sorted(self.dependencies, key=lambda x: x.name.lower()): the set is
\* enumerated in an unspecified order and the sort is stable, so every
\* order with non-decreasing keys is a possible result.
SortedDeps(deps) ==
    {s \in Orders(deps) :
        \A i, j \in DOMAIN s :
            i < j => ~(AtomRank(Lower(s[j].name)) < AtomRank(Lower(s[i].name)))}

Undefined == <<"u", "n", "d", "e", "f", "i", "n", "e", "d">>

\* dep.version or "undefined"
VersionOr(dep) == IF Falsy(dep.version) THEN Undefined ELSE dep.version.s

\* A report is the sequence of its table rows f"| {label} | {text} |" in
\* document order (title, header and separator lines carry none of the
\* labels that are read back).
Row(label, text) == [label |-> label, text |-> text]
Report(rows) == [rows |-> rows]

DependencyRows(order) == [i \in DOMAIN order |-> Row(order[i].name, VersionOr(order[i]))]

\* generate_markdown_report of backend/Athena, given the generator's
\* build_info (given = FALSE for build_info=None) and the sorted dependencies.
Athena_generate_markdown_report(athena_version, given, build_info, order) ==
    Report(
        (IF given
         THEN << Row("C Compiler", Fmt(build_info.c)),
                 Row("CXX Compiler", Fmt(build_info.cxx)),
                 Row("Platform", Fmt(build_info.Platform)),
                 Row("LCG Version", Fmt(build_info.lcg_version)) >>
         ELSE << >>)
        \o << Row("Athena", athena_version) >>
        \o DependencyRows(order))

RowIf(d, key) == IF DictHas(d, key) THEN << Row(key, DictGet(d, key)) >> ELSE << >>

\* generate_markdown_report of backend/AnalysisBase
AnalysisBase_generate_markdown_report(analysisbase_version, externals_version, build_info, order) ==
    Report(
        (IF Truthy(build_info)
         THEN RowIf(build_info.items, "C Compiler")
              \o RowIf(build_info.items, "CXX Compiler")
              \o RowIf(build_info.items, "Platform")
         ELSE << >>)
        \o << Row("AnalysisBase", analysisbase_version),
              Row("AnalysisBaseExternals", externals_version) >>
        \o DependencyRows(order))

\* The group of r'\|\s*<label>\s*\|\s*(.+?)\s*\|' on the row "| label | text |",
\* then .strip(): the blanks before the text are skipped, and the group is
\* the shortest non-empty prefix that blanks and a bar follow.
RowCapture(text) ==
    LET w == LStrip(text)
        rest(k) == LStrip(SubSeq(w, k + 1, Len(w)) \o <<" ", "|">>)
        k == CHOOSE n \in 1..Len(w) :
                /\ Head(rest(n)) = "|"
                /\ \A m \in 1..(n - 1) : Head(rest(m)) # "|"
    IN  IF w = << >> THEN << >> ELSE Strip(SubSeq(w, 1, k))

FirstRow(rows, label) ==
    IF \E i \in DOMAIN rows : rows[i].label = label
    THEN CHOOSE i \in DOMAIN rows :
            /\ rows[i].label = label
            /\ \A j \in 1..(i - 1) : rows[j].label # label
    ELSE 0

\* re.search for one label and, on a match, build_info[key] = group(1).strip()
ReadRow(d, rows, label, key) ==
    IF FirstRow(rows, label) = 0 THEN d
    ELSE DictSet(d, key, RowCapture(rows[FirstRow(rows, label)].text))

\* parse_build_info_from_markdown(md_file) of Athena/version_sbom.py
parse_build_info_from_markdown(md_file) ==
    IF ~md_file.exists THEN << >>
    ELSE LET rows == md_file.data.rows
         IN  ReadRow(ReadRow(ReadRow(ReadRow(<< >>,
                 rows, "C Compiler", "C Compiler"),
                 rows, "CXX Compiler", "CXX Compiler"),
                 rows, "Platform", "Platform"),
                 rows, "LCG Version", "lcg_version")

\* The same parse inside create_sbom: None without a report, and no
\* LCG Version row is read.
create_sbom_recent_build_info(md_file) ==
    IF ~md_file.exists THEN NoneInfo
    ELSE LET rows == md_file.data.rows
         IN  Info(ReadRow(ReadRow(ReadRow(<< >>,
                 rows, "C Compiler", "C Compiler"),
                 rows, "CXX Compiler", "CXX Compiler"),
                 rows, "Platform", "Platform"))

\* The components generate_cyclonedx_sbom hands to the encoder: one per
\* distinct (name, version or "undefined"); the encoder's own order is
\* taken to be the sorted one.
ComponentsOf(deps) ==
    LET pairs == {<<d.name, VersionOr(d)>> : d \in deps}
        seq == Sorted(CHOOSE s \in Orders(pairs) : TRUE)
    IN  [i \in DOMAIN seq |-> Component(seq[i][1], seq[i][2])]

\* generate_cyclonedx_sbom of backend/AnalysisBase
AnalysisBase_generate_cyclonedx_sbom(deps, analysisbase_version, externals_version, t) ==
    Manifest(ComponentsOf(deps),
             << Property("AnalysisBase", analysisbase_version),
                Property("AnalysisBaseExternals", externals_version) >>, t, t)

\* generate_cyclonedx_sbom of backend/Athena
Athena_generate_cyclonedx_sbom(deps, athena_version, t) ==
    Manifest(ComponentsOf(deps), << Property("Athena", athena_version) >>, t, t)

---------------------------------------------------------------------------
(* The version gate as a state machine                                     *)

Projects == {"StatAnalysis", "AnalysisBase", "Athena"}

\* output_dir of a create request: the default and one other name.
Roots == {"SBOMs", "out"}

\* The command-line gate (version_sbom.py) and two request handlers.
Procs == {"cli", "w1", "w2"}
Web == {"w1", "w2"}

\* Inputs: what the dependency parsers found, and the build log.
DepA == {Dependency("boost", Some(<<"1">>), "cppDep.txt", "")}
DepB == {Dependency("boost", Some(<<"2">>), "cppDep.txt", "")}
DepPool == {DepA, DepB}

LogFull ==
    LogFile([i \in 1..(PlatformLineIndex + 1) |->
        CASE i = 1 -> Line("c", <<"g">>, << >>)
          [] i = 2 -> Line("cxx", <<"g">>, << >>)
          [] i = 3 -> Line("lcg", <<"1">>, <<"x">>)
          [] i = PlatformLineIndex + 1 -> Line("plat", <<"x">>, << >>)
          [] OTHER -> OtherLine])
NoLog == [exists |-> FALSE, lines |-> << >>]
LogPool == {NoLog, LogFull}

\* Default arguments: athena_version, analysisbase_version, externals_version.
DefaultVersion == <<"2", "4", ".", "0">>
DefaultExternals == <<"2", "4", ".", "2">>

\* generate_cyclonedx_sbom and generate_markdown_report of src/sbomGenerator.py
\* (StatAnalysis): components only, no metadata property; every dependency
\* of DepPool carries a version, so the "unknown" default is never taken.
StatManifest(deps, t) == Manifest(ComponentsOf(deps), << >>, t, t)
StatReport(order) == Report(DependencyRows(order))

NoManifest == Manifest(<< >>, << >>, 0, 0)

\* History keeps what a run was given without its times: the manifest's
\* components and properties, and the report's text.
Content(sbom_data) ==
    [components |-> sbom_data.components, properties |-> sbom_data.properties]
Text(file) == IF file.exists THEN [exists |-> TRUE, data |-> file.data] ELSE NoFile
NoCand == [json |-> NoFile, md |-> NoFile]

\* The directory the server is started in.
BACKEND_DIR == "backend"

LocIdle ==
    [root |-> "SBOMs", sbom |-> NoManifest, build |-> NoneInfo, order |-> << >>,
     hadMd |-> FALSE, version_num |-> 0, version_dir |-> << >>, start |-> {},
     accept |-> {}, logAt |-> NoLog, md |-> NoFile, original_cwd |-> BACKEND_DIR]

NoRun ==
    [kind |-> "none", outcome |-> "none", sbom |-> Content(NoManifest), md |-> NoFile,
     logAt |-> NoLog, root |-> "SBOMs", dir |-> << >>, left |-> FALSE,
     manifests |-> 0, report |-> FALSE, accept |-> {}]

\* Of the run before the last one, history keeps its kind, how it ended, and
\* whether the run after it was given the same manifest content, the same
\* report text and the same build log.
Brief(before, run) ==
    [kind |-> before.kind, outcome |-> before.outcome,
     hadMd |-> before.md.exists,
     sameSbom |-> before.sbom = run.sbom,
     sameMd |-> before.md = run.md,
     sameLog |-> before.logAt = run.logAt]

AllIdle == \A p \in Procs : pc[p] = "idle"

Pure == <<fargs, fres, gen>>
NoArgs == [op |-> "none"]
NoGen == [op |-> "none"]

GateInit ==
    /\ project \in Projects
    /\ fs = [r \in Roots |-> NoDir]
    /\ cand = NoCand
    /\ log \in (IF project = "StatAnalysis" THEN {NoLog} ELSE LogPool)
    /\ now = 1
    /\ pc = [p \in Procs |-> "idle"]
    /\ loc = [p \in Procs |-> LocIdle]
    /\ hist = [prev |-> Brief(NoRun, NoRun), last |-> NoRun, flip |-> 0, errors |-> 0]
    /\ cwd = BACKEND_DIR

Init == GateInit /\ fargs = NoArgs /\ fres = NoArgs /\ gen = NoGen

\* The end of a run: its summary becomes the last run of the history.
EndRun(p, run) ==
    /\ hist' = [prev |-> Brief(hist.last, run), last |-> run, flip |-> 1 - hist.flip,
                errors |-> hist.errors + (IF run.outcome = "error" THEN 1 ELSE 0)]
    /\ pc' = [pc EXCEPT ![p] = "idle"]
    /\ loc' = [loc EXCEPT ![p] = LocIdle]

\* The entries of a root with the entry `name` set to `entry`.
PutEntry(root, name, entry) ==
    Dir((name :> entry) @@ Entries(root))

\* The root with file `fname` of its directory `name` set to `file`.
PutFile(root, name, fname, file) ==
    PutEntry(root, name,
             DirEntry((fname :> file) @@ root.entries[name].files))

NewNames(f, r, start) == DOMAIN Entries(f[r]) \ start

ManifestCount(entry) == Cardinality(DOMAIN entry.files \cap JsonNames)

\* What a run that ends leaves in the directory it chose.
Summary(l, kind, outcome, f) ==
    LET entries == Entries(f[l.root])
        made == l.version_dir \in DOMAIN entries /\ entries[l.version_dir].isDir
    IN  [kind |-> kind, outcome |-> outcome, sbom |-> Content(l.sbom), md |-> Text(l.md),
         logAt |-> l.logAt, root |-> l.root, dir |-> l.version_dir,
         left |-> NewNames(f, l.root, l.start) # {},
         manifests |-> IF made THEN ManifestCount(entries[l.version_dir]) ELSE 0,
         report |-> made /\ \E j \in JsonNames :
                        with_suffix_md(j) \in DOMAIN entries[l.version_dir].files,
         accept |-> l.accept]

---------------------------------------------------------------------------
(* Environment: the generator run before the gate, and the build log       *)

\* SBOMGenerator.generate of backend/Athena writes athena-sbom.json and
\* athena-sbom.md, and nothing when the log gives no release or platform.
\* For StatAnalysis the two candidate files are an input.
Generate ==
    /\ AllIdle
    /\ project \in {"StatAnalysis", "Athena"}
    /\ now < MaxClock
    /\ \E deps \in DepPool : \E order \in SortedDeps(deps) :
          IF project = "Athena"
          THEN LET build_info == Athena_parse_build_info(log)
               IN  /\ ~Falsy(build_info.lcg_version)
                   /\ ~Falsy(build_info.platform)
                   /\ cand' = [json |-> File(Athena_generate_cyclonedx_sbom(
                                                deps, DefaultVersion, now), now),
                               md |-> File(Athena_generate_markdown_report(
                                                DefaultVersion, TRUE, build_info, order),
                                           now)]
          ELSE cand' = [json |-> File(StatManifest(deps, now), now),
                        md |-> File(StatReport(order), now)]
    /\ now' = now + 1
    /\ UNCHANGED <<cwd, project, fs, log, pc, loc, hist, Pure>>

\* The report is an optional input of the gate: it may be missing.
RemoveReport ==
    /\ AllIdle
    /\ cand.json.exists /\ cand.md.exists
    /\ cand' = [cand EXCEPT !.md = NoFile]
    /\ UNCHANGED <<cwd, project, fs, log, now, pc, loc, hist, Pure>>

\* A new build replaces externalBuild.txt.
SetLog ==
    /\ AllIdle
    /\ project # "StatAnalysis"
    /\ \E l \in LogPool \ {log} : log' = l
    /\ UNCHANGED <<cwd, project, fs, cand, now, pc, loc, hist, Pure>>

---------------------------------------------------------------------------
(* main() of version_sbom.py (StatAnalysis and Athena)                     *)

MainKind == IF project = "Athena" THEN "athena_main" ELSE "stat_main"

NamedFile(entry, fname) ==
    IF fname \in DOMAIN entry.files THEN entry.files[fname] ELSE NoFile

\* sboms_dir.mkdir(exist_ok=True): all that main() writes before it decides.
MainCheckFs(f) ==
    [f EXCEPT !["SBOMs"] = IF @.exists THEN @ ELSE EmptyDir]

\* is_duplicate of main(): the most recent directory holds the manifest and
\* its signature, with the build information read back from its report (Athena
\* only), equals the new one.
MainIsDuplicate(entries, scan, proj, new_signature) ==
    /\ scan.found
    /\ HasFile(entries[scan.most_recent_dir], MainJsonName(proj))
    /\ LET dir == entries[scan.most_recent_dir]
           recent_sbom_data == dir.files[MainJsonName(proj)].data
           recent_md == NamedFile(dir, with_suffix_md(MainJsonName(proj)))
           recent_build_info ==
               IF proj = "Athena"
               THEN Info(parse_build_info_from_markdown(recent_md))
               ELSE NoneInfo
       IN  get_sbom_signature(recent_sbom_data, recent_build_info) = new_signature

\* A mutant: the report of a duplicate candidate is left where it was.
Unlink_manifest_only(c) == [c EXCEPT !.json = NoFile]

\* json_file.unlink() and, if md_file.exists(), md_file.unlink()
Unlink(c) == [json |-> NoFile, md |-> NoFile]

\* version_dir.mkdir(exist_ok=True)
Mkdir(root, name) ==
    IF name \in DOMAIN root.entries THEN root
    ELSE PutEntry(root, name, DirEntry(<< >>))

\* mkdir raises FileExistsError when the name is taken by a regular file.
MkdirFails(root, name) ==
    root.exists /\ name \in DOMAIN root.entries /\ ~root.entries[name].isDir

\* if md_file.exists(): md_file.rename(version_dir / '...-sbom.md')
MoveReport(root, name, proj, c) ==
    IF c.md.exists
    THEN PutFile(root, name, with_suffix_md(MainJsonName(proj)), c.md)
    ELSE root

\* From the start of main() to its decision: the candidate is loaded, SBOMs/
\* is made, the directories are scanned and the signatures compared.  A
\* duplicate ends the run here, with both candidate files unlinked.  Without
\* a candidate manifest main() exits at once and nothing changes.
MainCheck(p, mayStart) ==
    /\ pc[p] = "idle"
    /\ project \in {"StatAnalysis", "Athena"}
    /\ mayStart
    /\ IF ~cand.json.exists
       THEN UNCHANGED vars
       ELSE LET new_sbom_data == cand.json.data
                new_build_info ==
                    IF project = "Athena"
                    THEN Info(parse_build_info_from_file(log)) ELSE NoneInfo
                new_signature == get_sbom_signature(new_sbom_data, new_build_info)
                fs1 == MainCheckFs(fs)
                entries == fs1["SBOMs"].entries
            IN  \E order \in Orders(DOMAIN entries) :
                  LET scan == MainScan(entries, order)
                      l == [LocIdle EXCEPT
                              !.sbom = new_sbom_data, !.md = cand.md,
                              !.hadMd = cand.md.exists, !.build = new_build_info,
                              !.logAt = log, !.start = DOMAIN entries,
                              !.version_num = MainNextVersion(scan),
                              !.version_dir = VName(MainNextVersion(scan))]
                  IN  /\ fs' = fs1
                      /\ IF MainIsDuplicate(entries, scan, project, new_signature)
                         THEN /\ cand' = Unlink(cand)
                              /\ EndRun(p, Summary([l EXCEPT !.version_dir = << >>],
                                                   MainKind, "duplicate", fs1))
                              /\ UNCHANGED <<cwd, project, log, now, Pure>>
                         ELSE /\ MainNextVersion(scan) <= MaxVersion
                              /\ pc' = [pc EXCEPT ![p] = "m_mkdir"]
                              /\ loc' = [loc EXCEPT ![p] = l]
                              /\ UNCHANGED <<cwd, project, cand, log, now, hist, Pure>>

\* version_dir.mkdir(exist_ok=True)
MainMkdir(p, Faults) ==
    /\ pc[p] = "m_mkdir"
    /\ \E fail \in Faults :
          LET l == loc[p]
          IN  IF fail \/ MkdirFails(fs[l.root], l.version_dir)
              THEN /\ EndRun(p, Summary(l, MainKind, "error", fs))
                   /\ UNCHANGED <<cwd, project, fs, cand, log, now, Pure>>
              ELSE /\ fs' = [fs EXCEPT ![l.root] = Mkdir(@, l.version_dir)]
                   /\ pc' = [pc EXCEPT ![p] = "m_json"]
                   /\ UNCHANGED <<cwd, project, cand, log, now, loc, hist, Pure>>

\* json_file.rename(version_dir / '...-sbom.json'): the file keeps its
\* modification time.
MainMoveJson(p, Faults) ==
    /\ pc[p] = "m_json"
    /\ \E fail \in Faults :
          LET l == loc[p]
          IN  IF fail \/ ~cand.json.exists
              THEN /\ EndRun(p, Summary(l, MainKind, "error", fs))
                   /\ UNCHANGED <<cwd, project, fs, cand, log, now, Pure>>
              ELSE /\ fs' = [fs EXCEPT ![l.root] =
                               PutFile(@, l.version_dir, MainJsonName(project), cand.json)]
                   /\ cand' = [cand EXCEPT !.json = NoFile]
                   /\ pc' = [pc EXCEPT ![p] = "m_md"]
                   /\ UNCHANGED <<cwd, project, log, now, loc, hist, Pure>>

\* The report follows when there is one, and main() reports the new version.
MainMoveMd(p, Faults) ==
    /\ pc[p] = "m_md"
    /\ \E fail \in Faults :
          LET l == loc[p]
              fs1 == [fs EXCEPT ![l.root] = MoveReport(@, l.version_dir, project, cand)]
          IN  IF fail /\ cand.md.exists
              THEN /\ EndRun(p, Summary(l, MainKind, "error", fs))
                   /\ UNCHANGED <<cwd, project, fs, cand, log, now, Pure>>
              ELSE /\ fs' = fs1
                   /\ cand' = [cand EXCEPT !.md = NoFile]
                   /\ EndRun(p, Summary(l, MainKind, "committed", fs1))
                   /\ UNCHANGED <<cwd, project, log, now, Pure>>


---------------------------------------------------------------------------
(* create_sbom of app.py                                                   *)

WebKind == IF project = "AnalysisBase" THEN "ab_web" ELSE "stat_web"

AllNames(f, rs) == UNION {DOMAIN Entries(f[r]) : r \in rs}

\* find_sbom_files() for one project: every '*-sbom.json' of every directory
\* below the project directory, with its modification time and the report
\* beside it.
find_sbom_files(f) ==
    {[root |-> r, name |-> n, json |-> j,
      data |-> f[r].entries[n].files[j].data,
      mtime |-> f[r].entries[n].files[j].mtime,
      md |-> NamedFile(f[r].entries[n], with_suffix_md(j))] :
        <<r, n, j>> \in {t \in Roots \X AllNames(f, Roots) \X JsonNames :
                           /\ t[2] \in DOMAIN Entries(f[t[1]])
                           /\ HasFile(f[t[1]].entries[t[2]], t[3])}}

\* project_sboms[0] after sort(key=mtime, reverse=True): a manifest of the
\* newest modification time (any of them on a tie).
MostRecent(project_sboms) ==
    {m \in project_sboms : \A k \in project_sboms : k.mtime <= m.mtime}

\* recent_signature == new_signature for the manifest picked.
WebIsDuplicate(most_recent, sbom_type, new_signature) ==
    LET recent_build_info ==
            IF sbom_type = "AnalysisBase"
            THEN create_sbom_recent_build_info(most_recent.md)
            ELSE NoneInfo
    IN  get_sbom_signature(most_recent.data, recent_build_info) = new_signature

\* The values is_duplicate can take.
WebDecisions(f, sbom_type, new_signature) ==
    IF find_sbom_files(f) = {} THEN {FALSE}
    ELSE {WebIsDuplicate(m, sbom_type, new_signature) :
             m \in MostRecent(find_sbom_files(f))}

\* History: what the comparison with "the manifest stored in the
\* highest-numbered version directory" would decide, the directory being the
\* highest of the request's output directory or the highest of the project.
HighestIn(f, rs) ==
    LET all == {t \in rs \X AllNames(f, rs) :
                   /\ t[2] \in DOMAIN Entries(f[t[1]])
                   /\ IsVersionDir(f[t[1]].entries, t[2])}
    IN  {t \in all : \A u \in all : VersionNum(u[2]) <= VersionNum(t[2])}

DecisionAgainst(f, t, sbom_type, new_signature) ==
    \E m \in find_sbom_files(f) :
        /\ m.root = t[1] /\ m.name = t[2]
        /\ WebIsDuplicate(m, sbom_type, new_signature)

AcceptableDecisions(f, output_dir, sbom_type, new_signature) ==
    LET of(rs) == IF HighestIn(f, rs) = {} THEN {FALSE}
                  ELSE {DecisionAgainst(f, t, sbom_type, new_signature) :
                           t \in HighestIn(f, rs)}
    IN  of({output_dir}) \cup of(Roots)

\* The new manifest and report of a request.
WebManifest(deps, t) ==
    IF project = "AnalysisBase"
    THEN AnalysisBase_generate_cyclonedx_sbom(deps, DefaultVersion, DefaultExternals, t)
    ELSE StatManifest(deps, t)

WebReport(build_info, order) ==
    IF project = "AnalysisBase"
    THEN AnalysisBase_generate_markdown_report(DefaultVersion, DefaultExternals,
                                               build_info, order)
    ELSE StatReport(order)

\* A mutant: every type is taken.
ValidType_any(sbom_type) == TRUE

\* sbom_type in ['AnalysisBase', 'StatAnalysis']
ValidType(sbom_type) == sbom_type \in {"AnalysisBase", "StatAnalysis"}

\* From the request to is_duplicate, for a request whose output_dir is one
\* of dirs.  A type other than AnalysisBase and StatAnalysis is answered 400;
\* a duplicate is answered without a write.
WebCheck(p, mayStart, dirs) ==
    /\ pc[p] = "idle"
    /\ mayStart
    /\ IF ~ValidType(project)
       THEN /\ EndRun(p, [NoRun EXCEPT !.kind = "athena_web", !.outcome = "rejected"])
            /\ UNCHANGED <<cwd, project, fs, cand, log, now, Pure>>
       ELSE /\ now < MaxClock
            /\ \E output_dir \in dirs, deps \in DepPool :
               \E order \in SortedDeps(deps) :
                 LET build_info ==
                         IF project = "AnalysisBase"
                         THEN Info(AnalysisBase_parse_build_info(log)) ELSE NoneInfo
                     new_sbom_data == WebManifest(deps, now)
                     new_signature == get_sbom_signature(new_sbom_data, build_info)
                     l == [LocIdle EXCEPT
                             !.root = output_dir, !.sbom = new_sbom_data,
                             !.build = build_info, !.order = order,
                             !.logAt = log, !.hadMd = TRUE,
                             !.md = File(WebReport(build_info, order), now),
                             !.start = DOMAIN Entries(fs[output_dir]),
                             !.accept = AcceptableDecisions(fs, output_dir,
                                                            project, new_signature),
                             !.original_cwd = cwd]
                 IN  \E is_duplicate \in WebDecisions(fs, project, new_signature) :
                       IF is_duplicate
                       THEN /\ EndRun(p, Summary(l, WebKind, "duplicate", fs))
                            /\ UNCHANGED <<cwd, project, fs, cand, log, now, Pure>>
                       ELSE /\ get_next_version_number(fs[output_dir]) <= MaxVersion
                            /\ pc' = [pc EXCEPT ![p] = "w_next"]
                            /\ loc' = [loc EXCEPT ![p] = l]
                            /\ cwd' = project
                            /\ UNCHANGED <<project, fs, cand, log, now, hist, Pure>>

\* version_num = get_next_version_number(base_dir, output_dir)
WebNextVersion(p) ==
    /\ pc[p] = "w_next"
    /\ get_next_version_number(fs[loc[p].root]) <= MaxVersion
    /\ loc' = [loc EXCEPT ![p].version_num = get_next_version_number(fs[loc[p].root]),
                          ![p].version_dir = VName(get_next_version_number(fs[loc[p].root]))]
    /\ pc' = [pc EXCEPT ![p] = "w_mkdir"]
    /\ UNCHANGED <<cwd, project, fs, cand, log, now, hist, Pure>>

\* version_dir.mkdir(parents=True, exist_ok=True)
WebMkdir(p, Faults) ==
    /\ pc[p] = "w_mkdir"
    /\ \E fail \in Faults :
          LET l == loc[p]
          IN  IF fail \/ MkdirFails(fs[l.root], l.version_dir)
              THEN /\ EndRun(p, Summary(l, WebKind, "error", fs))
                   /\ cwd' = l.original_cwd
                   /\ UNCHANGED <<project, fs, cand, log, now, Pure>>
              ELSE /\ fs' = [fs EXCEPT ![l.root] =
                               Mkdir(IF @.exists THEN @ ELSE EmptyDir, l.version_dir)]
                   /\ pc' = [pc EXCEPT ![p] = "w_json"]
                   /\ UNCHANGED <<cwd, project, cand, log, now, loc, hist, Pure>>

\* The manifest is written (or copied from the temporary file): a new file,
\* with the time of the write.
WebWriteJson(p, Faults) ==
    /\ pc[p] = "w_json"
    /\ now < MaxClock
    /\ \E fail \in Faults :
          LET l == loc[p]
          IN  IF fail
              THEN /\ EndRun(p, Summary(l, WebKind, "error", fs))
                   /\ cwd' = l.original_cwd
                   /\ UNCHANGED <<project, fs, cand, log, now, Pure>>
              ELSE /\ fs' = [fs EXCEPT ![l.root] =
                               PutFile(@, l.version_dir, WebJsonName(project),
                                       File(l.sbom, now))]
                   /\ now' = now + 1
                   /\ pc' = [pc EXCEPT ![p] = "w_md"]
                   /\ UNCHANGED <<cwd, project, cand, log, loc, hist, Pure>>

\* The report is written beside it and the request is answered.
WebWriteMd(p, Faults) ==
    /\ pc[p] = "w_md"
    /\ \E fail \in Faults :
          LET l == loc[p]
              fs1 == [fs EXCEPT ![l.root] =
                        PutFile(@, l.version_dir,
                                with_suffix_md(WebJsonName(project)),
                                File(l.md.data, now))]
          IN  IF fail
              THEN /\ EndRun(p, Summary(l, WebKind, "error", fs))
                   /\ cwd' = l.original_cwd
                   /\ UNCHANGED <<project, fs, cand, log, now, Pure>>
              ELSE /\ fs' = fs1
                   /\ EndRun(p, Summary(l, WebKind, "committed", fs1))
                   /\ cwd' = l.original_cwd
                   /\ UNCHANGED <<project, cand, log, now, Pure>>

---------------------------------------------------------------------------
(* Specifications of the gate                                              *)

\* Whether a file-system call raises: never, or at any call until MaxErrors
\* runs have failed.
NoFaults == {FALSE}
AnyFault == IF hist.errors < MaxErrors THEN {FALSE, TRUE} ELSE {FALSE}

\* A run of version_sbom.main, step by step.
MainRun(mayStart, Faults) ==
    \/ MainCheck("cli", mayStart)
    \/ MainMkdir("cli", Faults)
    \/ MainMoveJson("cli", Faults)
    \/ MainMoveMd("cli", Faults)

\* A create_sbom request handled by p, step by step.
WebRun(p, mayStart, dirs, Faults) ==
    \/ WebCheck(p, mayStart, dirs)
    \/ WebNextVersion(p)
    \/ WebMkdir(p, Faults)
    \/ WebWriteJson(p, Faults)
    \/ WebWriteMd(p, Faults)

Environment == Generate \/ RemoveReport \/ SetLog

\* Runs one after another, no I/O failure.
Next == Environment \/ MainRun(AllIdle, NoFaults) \/ WebRun("w1", AllIdle, Roots, NoFaults)
Spec == Init /\ [][Next]_vars

\* StatAnalysis requests for the default output_dir interleaved, as the
\* threaded server allows: a request may start at any time (the handlers
\* being alike, the one that starts while none is running is w1).
DefaultDir == {"SBOMs"}
NextConc ==
    \/ WebRun("w1", TRUE, DefaultDir, NoFaults)
    \/ WebRun("w2", pc["w1"] # "idle", DefaultDir, NoFaults)
InitConc == Init /\ project = "StatAnalysis"
SpecConc == InitConc /\ [][NextConc]_vars

\* Runs one after another, any file-system call may raise.
NextFault == Generate \/ MainRun(AllIdle, AnyFault) \/ WebRun("w1", AllIdle, Roots, AnyFault)
SpecFault == Init /\ [][NextFault]_vars


---------------------------------------------------------------------------
(* Properties of the version gate                                          *)

Decided == {"committed", "duplicate"}
WebKinds == {"stat_web", "ab_web"}

\* Two runs of the gate in a row, `kind` both times, on the same content.
TwiceInARow(kind) ==
    /\ hist.prev.kind = kind /\ hist.last.kind = kind
    /\ hist.prev.outcome \in Decided
    /\ hist.last.outcome \in Decided
    /\ hist.prev.sameSbom

\* C1: when the StatAnalysis gate (main) runs twice in a row on candidate
\* manifests of identical content, the second run reports a duplicate and
\* leaves no new version directory.
C1_StatGateIdempotent ==
    TwiceInARow("stat_main") =>
        hist.last.outcome = "duplicate" /\ ~hist.last.left

\* A first run that committed a version and a second one that found it.
C1_Witness ==
    /\ TwiceInARow("stat_main")
    /\ hist.prev.outcome = "committed"
    /\ hist.last.outcome = "duplicate"

\* C2: when the Athena gate (main) runs twice in a row with the same
\* externalBuild.txt and a content-identical candidate manifest and report,
\* the second run reports a duplicate and creates no version directory.
C2_AthenaGateIdempotent ==
    (/\ TwiceInARow("athena_main")
     /\ hist.prev.sameLog
     /\ hist.prev.hadMd /\ hist.prev.sameMd)
    => hist.last.outcome = "duplicate" /\ ~hist.last.left

\* C3: a step of a run adds to a version root only a directory v{N} with N
\* above the number of every version directory already there, and changes the
\* contents only of a directory that did not exist when the run began.
C3_VersionsIncrease ==
    [][\A r \in Roots : \A n \in DOMAIN Entries(fs'[r]) :
          IF n \in DOMAIN Entries(fs[r])
          THEN fs'[r].entries[n] # fs[r].entries[n] =>
                  \E p \in Procs : /\ pc[p] # "idle"
                                   /\ loc[p].root = r
                                   /\ loc[p].version_dir = n
                                   /\ n \notin loc[p].start
          ELSE /\ IsVersionDir(fs'[r].entries, n)
               /\ \A m \in VersionNums(Entries(fs[r])) : m < VersionNum(n)]_vars

\* A run has committed a version above an earlier one.
C3_Witness ==
    /\ hist.last.outcome = "committed"
    /\ hist.last.dir # << >>
    /\ VersionNum(hist.last.dir) > 1

\* C5: the step that decides "duplicate" leaves every version root as it
\* was; main() discards both candidate files, and a request has none.
C5_DuplicateChangesNothing ==
    [][(hist'.flip # hist.flip /\ hist'.last.outcome = "duplicate") =>
          /\ fs' = fs
          /\ IF hist'.last.kind \in WebKinds THEN cand' = cand
             ELSE ~cand'.json.exists /\ ~cand'.md.exists]_vars

\* A duplicate was decided by main() with versions stored, and the candidate
\* is gone.
C5_Witness ==
    /\ hist.last.outcome = "duplicate"
    /\ hist.last.kind \in {"stat_main", "athena_main"}
    /\ fs["SBOMs"].exists /\ VersionNums(fs["SBOMs"].entries) # {}
    /\ cand = NoCand

\* C6: create_sbom decides as the comparison with the manifest of the
\* highest-numbered version directory decides (that of the request's output
\* directory, or that of the whole project).
C6_ComparesWithHighest ==
    /\ \A p \in Web : pc[p] = "w_next" => FALSE \in loc[p].accept
    /\ (hist.last.kind \in WebKinds /\ hist.last.outcome = "duplicate")
          => TRUE \in hist.last.accept

\* C7: two requests never hold the same version number for the same root.
C7_RunsSerialized ==
    \A p, q \in Procs :
        (/\ p # q
         /\ pc[p] \in {"w_mkdir", "w_json", "w_md"}
         /\ pc[q] \in {"w_mkdir", "w_json", "w_md"}
         /\ loc[p].root = loc[q].root)
        => loc[p].version_num # loc[q].version_num

\* C8: a run that fails after the duplicate check leaves no new entry under
\* its version root.
C8_AllOrNothing ==
    hist.last.outcome = "error" => ~hist.last.left

\* C9: the directory a committing run created holds one manifest and its
\* report when the run ends.
C9_ManifestAndReport ==
    hist.last.outcome = "committed" =>
        hist.last.manifests = 1 /\ hist.last.report


---------------------------------------------------------------------------
(* The next version number, on directory listings                          *)

Gate == <<project, fs, cand, log, now, pc, loc, hist, cwd>>

\* Names an SBOMs directory may hold: version directories (v1, v2, v7, and
\* the spellings v03 and v-1 that int() accepts), and names that are no
\* version (vx, v).
NamePool ==
    { <<"v", "1">>, <<"v", "2">>, <<"v", "7">>, <<"v", "0", "3">>,
      <<"v", "-", "1">>, <<"v", "x">>, <<"v">> }

\* The listings of at most MaxEntries entries, each a directory or a file.
Listings ==
    {NoDir} \cup
    UNION {{Dir(e) : e \in [names -> {DirEntry(<< >>), FileEntry}]} :
              names \in {N \in SUBSET NamePool : Cardinality(N) <= MaxEntries}}

InitNextVersion ==
    /\ GateInit /\ project = "StatAnalysis"
    /\ fres = NoArgs /\ gen = NoGen
    /\ \E root \in Listings : \E order \in Orders(DOMAIN Entries(root)) :
          fargs = [op |-> "next_version", root |-> root, order |-> order]

\* get_next_version_number on the listing, and the scan of main() on the
\* same listing read in the order iterdir() gave.
NextVersion ==
    /\ fargs.op = "next_version" /\ fres.op = "none"
    /\ fres' = [op |-> "next_version",
                function |-> get_next_version_number(fargs.root),
                inline |-> MainNextVersion(
                              MainScan(Entries(fargs.root), fargs.order))]
    /\ UNCHANGED <<Gate, fargs, gen>>

SpecNextVersion == InitNextVersion /\ [][NextVersion]_vars

\* C4: both computations give 1 when the root is absent or holds no
\* directory named v<integer>, and otherwise the greatest suffix plus one.
C4_NextVersion ==
    fres.op = "next_version" =>
        LET suffixes == VersionNums(Entries(fargs.root))
            expected == IF suffixes = {} THEN 1 ELSE Max(suffixes) + 1
        IN  fres.function = expected /\ fres.inline = expected

---------------------------------------------------------------------------
(* The signature, on manifests                                             *)

ComponentPool ==
    { Component("boost", <<"1">>), Component("boost", <<"2">>),
      Component("ROOT", <<"1">>) }

PropertyPool ==
    { Property("Athena", <<"1">>), Property("Athena", <<"2">>),
      Property("AnalysisBase", <<"1">>) }

BuildItemPool == { <<"C Compiler", <<"g">>>>, <<"Platform", <<"x">>>> }

\* Lists without repetition of at most n members of S.
ListsOf(S, n) == UNION {Orders(T) : T \in {U \in SUBSET S : Cardinality(U) <= n}}

\* Lists of at most n members of S, repetition allowed.
SeqsOf(S, n) == UNION {[1..k -> S] : k \in 0..n}

\* The rearrangements of a list.
Rearrangements(s) == {[i \in DOMAIN s |-> s[p[i]]] : p \in Orders(DOMAIN s)}

BuildInfos == {NoneInfo} \cup {Info(d) : d \in ListsOf(BuildItemPool, 2)}

InitSig ==
    /\ GateInit /\ project = "StatAnalysis"
    /\ fres = NoArgs /\ gen = NoGen
    /\ \E components \in ListsOf(ComponentPool, MaxComponents),
          properties \in SeqsOf(PropertyPool, MaxProperties),
          build_info \in BuildInfos :
       \E c2 \in Rearrangements(components), p2 \in Rearrangements(properties),
          b2 \in Rearrangements(build_info.items) :
          fargs = [op |-> "signature",
                   sbom_data |-> Manifest(components, properties, 0, 0),
                   build_info |-> build_info,
                   permuted |-> Manifest(c2, p2, 0, 0),
                   permuted_info |-> [build_info EXCEPT !.items = b2]]

\* The signature of the manifest and of its rearrangement.
Signature ==
    /\ fargs.op = "signature" /\ fres.op = "none"
    /\ fres' = [op |-> "signature",
                first |-> get_sbom_signature(fargs.sbom_data, fargs.build_info),
                second |-> get_sbom_signature(fargs.permuted, fargs.permuted_info)]
    /\ UNCHANGED <<Gate, fargs, gen>>

SpecSig == InitSig /\ [][Signature]_vars

\* C10: a manifest and any rearrangement of its component list, of its
\* metadata property list and of its build information have equal signatures.
C10_OrderIndependent ==
    fres.op = "signature" => fres.first = fres.second


---------------------------------------------------------------------------
(* The signature of two manifests                                          *)

\* Generation times and serial numbers of a manifest.
Stamps == (1..MaxClock) \X (1..2)

\* Two manifests with the same components and properties, generated at any
\* two times under any two serial numbers.
InitTime ==
    /\ GateInit /\ project = "StatAnalysis"
    /\ fres = NoArgs /\ gen = NoGen
    /\ \E components \in ListsOf(ComponentPool, MaxComponents),
          properties \in SeqsOf(PropertyPool, MaxProperties),
          s1 \in Stamps, s2 \in Stamps :
          fargs = [op |-> "pair",
                   sbom_data |-> Manifest(components, properties, s1[1], s1[2]),
                   other |-> Manifest(components, properties, s2[1], s2[2])]

\* Any two manifests.
InitPair ==
    /\ GateInit /\ project = "StatAnalysis"
    /\ fres = NoArgs /\ gen = NoGen
    /\ \E c1 \in ListsOf(ComponentPool, MaxComponents),
          c2 \in ListsOf(ComponentPool, MaxComponents),
          p1 \in SeqsOf(PropertyPool, MaxProperties),
          p2 \in SeqsOf(PropertyPool, MaxProperties) :
          fargs = [op |-> "pair",
                   sbom_data |-> Manifest(c1, p1, 1, 1),
                   other |-> Manifest(c2, p2, 1, 1)]

\* get_sbom_signature(sbom_data) of the one and of the other.
SignaturePair ==
    /\ fargs.op = "pair" /\ fres.op = "none"
    /\ fres' = [op |-> "pair",
                first |-> get_sbom_signature(fargs.sbom_data, NoneInfo),
                second |-> get_sbom_signature(fargs.other, NoneInfo)]
    /\ UNCHANGED <<Gate, fargs, gen>>

SpecTime == InitTime /\ [][SignaturePair]_vars
SpecPair == InitPair /\ [][SignaturePair]_vars

\* C11: two manifests that differ only in metadata.timestamp and in the serial
\* number have equal signatures.
C11_TimestampIndependent ==
    fres.op = "pair" => fres.first = fres.second

C11_Witness ==
    /\ fres.op = "pair"
    /\ fargs.sbom_data.timestamp # fargs.other.timestamp
    /\ fargs.sbom_data.serialNumber # fargs.other.serialNumber
    /\ fargs.sbom_data.components # << >>
    /\ fargs.sbom_data.properties # << >>

\* The sorted sequence of all (name, value) pairs of the metadata properties.
AllPropertyPairs(sbom_data) ==
    Sorted([i \in DOMAIN sbom_data.properties |->
                <<sbom_data.properties[i].name, sbom_data.properties[i].value>>])

\* C12: two manifests whose sorted (name, version) component pairs differ, or
\* whose sorted (name, value) property pairs differ, get different signatures.
C12_Sensitive ==
    (/\ fres.op = "pair"
     /\ \/ NormalizedComponents(fargs.sbom_data) # NormalizedComponents(fargs.other)
        \/ AllPropertyPairs(fargs.sbom_data) # AllPropertyPairs(fargs.other))
    => fres.first # fres.second


---------------------------------------------------------------------------
(* The Athena generator: the dependency set and its parser passes          *)

MaxPackages == 2

\* Dependency.__eq__ / __hash__: (name, version), nothing else.
SameDependency(a, b) == a.name = b.name /\ a.version = b.version

\* A mutant: a set that compares whole records.
SetAdd_whole(dependencies, dep) == dependencies \cup {dep}

\* A mutant: the arriving record replaces the one it equals.
SetAdd_replace(dependencies, dep) ==
    {e \in dependencies : ~SameDependency(e, dep)} \cup {dep}

\* self.dependencies.add(dep): a set keeps the member it has when an equal
\* one arrives.
SetAdd(dependencies, dep) ==
    IF \E e \in dependencies : SameDependency(e, dep)
    THEN dependencies ELSE dependencies \cup {dep}

\* for ... : self.dependencies.add(...)
RECURSIVE AddAll(_, _)
AddAll(dependencies, records) ==
    IF records = << >> THEN dependencies
    ELSE AddAll(SetAdd(dependencies, Head(records)), Tail(records))

\* generate: one record per item of a {name: version} mapping.
RecordsOf(packages, source) ==
    [i \in DOMAIN packages |->
        Dependency(packages[i][1], Some(packages[i][2]), source, "")]

\* find_missing_packages: name_mappings
name_mappings == << <<"nlohmann_json", "jsonmcpp">> >>

\* {k.lower(): v for k, v in lcg_packages.items()}
RECURSIVE LowerKeys(_, _)
LowerKeys(d, acc) ==
    IF d = << >> THEN acc
    ELSE LowerKeys(Tail(d), DictSet(acc, Lower(Head(d)[1]), Head(d)[2]))

\* The three tries of the loop body, each ending in `found = True; continue`.
Found(pkg, lcg_packages, lcg_packages_lower) ==
    \/ DictHas(lcg_packages, pkg)
    \/ DictHas(lcg_packages_lower, Lower(pkg))
    \/ /\ DictHas(name_mappings, pkg)
       /\ LET mapped_name == DictGet(name_mappings, pkg)
          IN  \/ DictHas(lcg_packages, mapped_name)
              \/ DictHas(lcg_packages_lower, Lower(mapped_name))

\* A mutant: names are compared exactly only.
find_missing_packages_exact(build_packages, lcg_packages) ==
    SelectSeq(build_packages, LAMBDA pkg : ~DictHas(lcg_packages, pkg))

\* A mutant: only the mapping's first key is looked at.
find_missing_packages_first(build_packages, lcg_packages) ==
    LET first == IF lcg_packages = << >> THEN << >> ELSE << Head(lcg_packages) >>
    IN  SelectSeq(build_packages,
                  LAMBDA pkg : ~Found(pkg, first, LowerKeys(first, << >>)))

find_missing_packages(build_packages, lcg_packages) ==
    LET lcg_packages_lower == LowerKeys(lcg_packages, << >>)
    IN  SelectSeq(build_packages,
                  LAMBDA pkg : ~Found(pkg, lcg_packages, lcg_packages_lower))


\* A CMakeLists.txt is told by what the patterns capture in it: one optional
\* capture per package-specific pattern, in list order, and one per generic
\* pattern, in list order.
CMakeLists(specific, generic) == [specific |-> specific, generic |-> generic]

\* for rx in ...: m = re.search(rx, content); if m: found_version = m.group(1); break
RECURSIVE FirstCapture(_)
FirstCapture(captures) ==
    IF captures = << >> THEN PyNone
    ELSE IF ~Head(captures).none THEN Head(captures)
    ELSE FirstCapture(Tail(captures))

\* A mutant: the generic patterns are tried first.
FoundVersion_generic_first(content) ==
    LET found_version == FirstCapture(content.generic)
    IN  IF Falsy(found_version) THEN FirstCapture(content.specific) ELSE found_version

\* Specific patterns first; the generic ones `if not found_version`.
FoundVersion(content) ==
    LET found_version == FirstCapture(content.specific)
    IN  IF Falsy(found_version) THEN FirstCapture(content.generic) ELSE found_version

\* A line of a requirements file after strip(): blank, a '#' comment,
\* name==version (the match of ^([A-Za-z0-9_\-]+)==([^\s]+)), or another.
ReqLine(kind, name, version) == [kind |-> kind, name |-> name, version |-> version]

req_files == << "requirements.txt.in", "requirements_athena.txt.in" >>

\* The PyModules branch: the pinned lines of the requirement files present.
RECURSIVE PyModulesRecords(_, _)
PyModulesRecords(reqs, i) ==
    IF i > Len(req_files) THEN << >>
    ELSE (IF reqs[i].exists
          THEN LET pins == SelectSeq(reqs[i].lines, LAMBDA line : line.kind = "pin")
               IN  [k \in DOMAIN pins |->
                       Dependency(pins[k].name, Some(pins[k].version),
                                  "PyModules", req_files[i])]
          ELSE << >>) \o PyModulesRecords(reqs, i + 1)

\* The loop of parse_atlasexternals_packages over missing_packages; a package
\* directory holds its CMakeLists.txt (PyNone when neither place has one)
\* and its requirement files.
RECURSIVE ExternalsLoop(_, _, _, _)
ExternalsLoop(missing_packages, dirs, packages, dependencies) ==
    IF missing_packages = << >>
    THEN [packages |-> packages, dependencies |-> dependencies]
    ELSE LET pkg == Head(missing_packages)
             rest == Tail(missing_packages)
         IN  IF ~DictHas(dirs, pkg) \/ DictGet(dirs, pkg).cmake.none
             THEN ExternalsLoop(rest, dirs, packages, dependencies)
             ELSE IF pkg = "PyModules"
             THEN ExternalsLoop(rest, dirs, packages,
                      AddAll(dependencies, PyModulesRecords(DictGet(dirs, pkg).reqs, 1)))
             ELSE LET found_version == FoundVersion(DictGet(dirs, pkg).cmake.s)
                  IN  IF Falsy(found_version)
                      THEN ExternalsLoop(rest, dirs, packages, dependencies)
                      ELSE ExternalsLoop(rest, dirs,
                               DictSet(packages, pkg, found_version.s), dependencies)

\* parse_atlasexternals_packages: the mapping returned and self.dependencies.
parse_atlasexternals_packages(missing_packages, tree, dependencies) ==
    IF ~tree.isDir \/ ~tree.external
    THEN [packages |-> << >>, dependencies |-> dependencies]
    ELSE ExternalsLoop(missing_packages, tree.dirs, << >>, dependencies)

\* A line of cppDep.txt after strip(): blank, the match of
\* ^([A-Za-z0-9_\-]+)\s*:\s*(.*)$ with version_raw as split() sees it, or another.
CppLine(kind, name, version_raw) ==
    [kind |-> kind, name |-> name, version_raw |-> version_raw]

CppPath == "cppDep.txt"

\* parse_cpp_deps of backend/Athena
Athena_parse_cpp_deps(cpp_file, dependencies) ==
    IF ~cpp_file.exists THEN dependencies
    ELSE LET entries == SelectSeq(cpp_file.lines, LAMBDA line : line.kind = "entry")
         IN  AddAll(dependencies,
                 [k \in DOMAIN entries |->
                     Dependency(entries[k].name,
                                Some(IF entries[k].version_raw = << >> THEN Undefined
                                     ELSE Head(entries[k].version_raw)),
                                CppPath, "")])


\* What parse_build_info hands to generate.
BuildLog(lcg_version, platform, packages) ==
    [lcg_version |-> lcg_version, platform |-> platform, packages |-> packages]

\* Inputs of a generation run.
PackagePool == {"Acts", "PyModules", "boost"}
BuildLogPool ==
    {BuildLog(PyNone, Some(<<"x">>), << >>)}
    \cup {BuildLog(Some(<<"1">>), Some(<<"x">>), p) : p \in SeqsOf(PackagePool, MaxPackages)}

LcgItemPool == { <<"boost", <<"1">>>>, <<"boost", <<"2">>>>, <<"numpy", <<"1">>>> }
DistinctKeys(d) == \A i, j \in DOMAIN d : d[i][1] = d[j][1] => i = j
LcgPool == {d \in ListsOf(LcgItemPool, 2) : DistinctKeys(d)}

NoTree == [isDir |-> FALSE, external |-> FALSE, dirs |-> << >>]
Tree(dirs) == [isDir |-> TRUE, external |-> TRUE, dirs |-> dirs]
PkgDir(cmake, reqs) == [cmake |-> cmake, reqs |-> reqs]
NoLines == [exists |-> FALSE, lines |-> << >>]
Lines(lines) == [exists |-> TRUE, lines |-> lines]
NoReqs == << NoLines, NoLines >>

ActsDirPool ==
    { << >>,
      << <<"Acts", PkgDir(Some(CMakeLists(<<PyNone, Some(<<"1">>)>>,
                                          <<Some(<<"2">>), PyNone, PyNone, PyNone>>)),
                          NoReqs)>> >>,
      << <<"Acts", PkgDir(Some(CMakeLists(<<PyNone, PyNone>>,
                                          <<PyNone, Some(<<"2">>), PyNone, PyNone>>)),
                          NoReqs)>> >> }
PyModulesDirPool ==
    { << >>,
      << <<"PyModules",
           PkgDir(Some(CMakeLists(<< >>, <<PyNone, PyNone, PyNone, PyNone>>)),
                  << Lines(<< ReqLine("comment", "", << >>),
                              ReqLine("pin", "boost", <<"2">>) >>),
                     Lines(<< ReqLine("pin", "numpy", <<"1">>),
                              ReqLine("pin", "boost", <<"2">>) >>) >>)>> >> }
TreePool == {NoTree} \cup {Tree(a \o p) : a \in ActsDirPool, p \in PyModulesDirPool}

CppLinePool ==
    { CppLine("entry", "boost", << <<"1">> >>),
      CppLine("entry", "Acts", << <<"1">>, <<"x">> >>),
      CppLine("entry", "Acts", << >>) }
CppFilePool == {NoLines} \cup {Lines(l) : l \in SeqsOf(CppLinePool, MaxPackages)}

InitGen ==
    /\ GateInit /\ project = "Athena" /\ log = NoLog
    /\ fargs = NoArgs /\ fres = NoArgs
    /\ \E build_info \in BuildLogPool, lcg_packages \in LcgPool,
          tree \in TreePool, cpp_file \in CppFilePool :
          gen = [op |-> "athena", stage |-> "start", build_info |-> build_info,
                 lcg_packages |-> lcg_packages, tree |-> tree, cpp_file |-> cpp_file,
                 dependencies |-> {}, missing_packages |-> << >>]

GenFrame == UNCHANGED <<Gate, fargs, fres>>

\* generate, to the records of the remote index.
GenLcg ==
    /\ gen.op = "athena" /\ gen.stage = "start"
    /\ IF Falsy(gen.build_info.lcg_version) \/ Falsy(gen.build_info.platform)
       THEN gen' = [gen EXCEPT !.stage = "done"]
       ELSE gen' = [gen EXCEPT !.stage = "missing",
                       !.dependencies = AddAll(@, RecordsOf(gen.lcg_packages, "LCG Website"))]
    /\ GenFrame

GenMissing ==
    /\ gen.op = "athena" /\ gen.stage = "missing"
    /\ gen' = [gen EXCEPT !.stage = "externals",
                  !.missing_packages =
                      find_missing_packages(gen.build_info.packages, gen.lcg_packages)]
    /\ GenFrame

\* `if missing_packages:` the secondary lookup and its records.
GenExternals ==
    /\ gen.op = "athena" /\ gen.stage = "externals"
    /\ IF gen.missing_packages = << >>
       THEN gen' = [gen EXCEPT !.stage = "cpp"]
       ELSE LET r == parse_atlasexternals_packages(gen.missing_packages, gen.tree,
                                                   gen.dependencies)
            IN  gen' = [gen EXCEPT !.stage = "cpp",
                           !.dependencies =
                               AddAll(r.dependencies,
                                      RecordsOf(r.packages, "AtlasExternals"))]
    /\ GenFrame

GenCpp ==
    /\ gen.op = "athena" /\ gen.stage = "cpp"
    /\ gen' = [gen EXCEPT !.stage = "done",
                  !.dependencies = Athena_parse_cpp_deps(gen.cpp_file, @)]
    /\ GenFrame

NextGen == GenLcg \/ GenMissing \/ GenExternals \/ GenCpp
SpecGen == InitGen /\ [][NextGen]_vars


\* C13: the dependency set never holds two records with the same
\* (name, version) pair, after any of the parser passes.
C13_IdentityInvariant ==
    gen.op = "athena" =>
        \A a, b \in gen.dependencies : SameDependency(a, b) => a = b

\* The same name at two versions, as two records.
C13_Witness ==
    /\ gen.op = "athena" /\ gen.stage = "done"
    /\ \E a, b \in gen.dependencies : a.name = b.name /\ a.version # b.version

\* The (name, version) pairs the inputs of a run hold, by source.
InLcg(d) ==
    \E i \in DOMAIN gen.lcg_packages :
        gen.lcg_packages[i] = <<d.name, d.version.s>>
Secondary ==
    LET r == parse_atlasexternals_packages(
                 find_missing_packages(gen.build_info.packages, gen.lcg_packages),
                 gen.tree, {})
    IN  r.dependencies \cup {Dependency(r.packages[i][1], Some(r.packages[i][2]),
                                        "AtlasExternals", "") : i \in DOMAIN r.packages}
InSecondary(d) == \E e \in Secondary : SameDependency(e, d)
InCpp(d) ==
    /\ gen.cpp_file.exists
    /\ \E i \in DOMAIN gen.cpp_file.lines :
          LET line == gen.cpp_file.lines[i]
          IN  /\ line.kind = "entry" /\ line.name = d.name
              /\ d.version.s = (IF line.version_raw = << >> THEN Undefined
                                ELSE Head(line.version_raw))
PinnedIn(d, i) ==
    /\ gen.tree.isDir /\ DictHas(gen.tree.dirs, "PyModules")
    /\ LET f == DictGet(gen.tree.dirs, "PyModules").reqs[i]
       IN  f.exists /\ \E k \in DOMAIN f.lines :
               f.lines[k] = ReqLine("pin", d.name, d.version.s)

\* C14: no pass removes or changes a record of the dependency set, and a
\* record that arrives from several sources keeps the source and file_path of
\* the first arrival: the remote index, then the secondary lookup, then the
\* side file.
C14_FirstArrivalKept ==
    /\ [][(gen.op = "athena" /\ gen'.op = "athena")
            => gen.dependencies \subseteq gen'.dependencies]_vars
    /\ [](gen.op = "athena" =>
            \A d \in gen.dependencies :
                /\ InLcg(d) => d.source = "LCG Website"
                /\ (~InLcg(d) /\ InSecondary(d))
                      => d.source \in {"PyModules", "AtlasExternals"}
                /\ d.source = "PyModules" =>
                      \E i \in DOMAIN req_files :
                          /\ PinnedIn(d, i) /\ d.file_path = req_files[i]
                          /\ \A j \in 1..(i - 1) : ~PinnedIn(d, j))

\* A pair that arrives from two sources, at the end of the run.
C14_Witness ==
    /\ gen.op = "athena" /\ gen.stage = "done"
    /\ \E d \in gen.dependencies : InLcg(d) /\ InCpp(d)
    /\ \E d \in gen.dependencies : ~InLcg(d) /\ InSecondary(d) /\ InCpp(d)
    /\ \E d \in gen.dependencies : PinnedIn(d, 1) /\ PinnedIn(d, 2)


---------------------------------------------------------------------------
(* find_missing_packages on its own                                        *)

ExpectedPool == {"Boost", "boost", "nlohmann_json", "Acts"}
DiscoveredPool == {"Boost", "boost", "jsonmcpp", "JsonMCpp"}

\* Mappings of at most n discovered names, in every insertion order.
Discovered(n) ==
    {[i \in DOMAIN keys |-> <<keys[i], <<"1">>>>] : keys \in ListsOf(DiscoveredPool, n)}

\* An expected list, a discovered mapping, and the same keys inserted in
\* another order.
InitMissing ==
    /\ GateInit /\ project = "Athena" /\ log = NoLog
    /\ fres = NoArgs /\ gen = NoGen
    /\ \E build_packages \in SeqsOf(ExpectedPool, MaxPackages),
          lcg_packages \in Discovered(MaxPackages) :
       \E other \in Rearrangements(lcg_packages) :
          fargs = [op |-> "missing", build_packages |-> build_packages,
                   lcg_packages |-> lcg_packages, other |-> other]

Missing ==
    /\ fargs.op = "missing" /\ fres.op = "none"
    /\ fres' = [op |-> "missing",
                first |-> find_missing_packages(fargs.build_packages, fargs.lcg_packages),
                second |-> find_missing_packages(fargs.build_packages, fargs.other)]
    /\ UNCHANGED <<Gate, fargs, gen>>

SpecMissing == InitMissing /\ [][Missing]_vars

\* The three strategies, on the set of discovered names.
Names(lcg_packages) == {lcg_packages[i][1] : i \in DOMAIN lcg_packages}
ExactMatch(pkg, names) == pkg \in names
CaseInsensitiveMatch(pkg, names) == \E k \in names : Lower(k) = Lower(pkg)
AliasMatch(pkg, names) ==
    pkg = "nlohmann_json" /\ CaseInsensitiveMatch("jsonmcpp", names)

\* C15: the list returned holds, in their order, exactly the expected
\* packages that no strategy matches: exact name, name up to case, alias.
C15_MissingIffUnmatched ==
    fres.op = "missing" =>
        fres.first = SelectSeq(fargs.build_packages,
                         LAMBDA pkg :
                             LET names == Names(fargs.lcg_packages)
                             IN  /\ ~ExactMatch(pkg, names)
                                 /\ ~CaseInsensitiveMatch(pkg, names)
                                 /\ ~AliasMatch(pkg, names))

\* One expected package matched up to case or by alias only, another missing.
C15_Witness ==
    /\ fres.op = "missing"
    /\ Len(fres.first) = 1 /\ Len(fargs.build_packages) = 2
    /\ \E i \in DOMAIN fargs.build_packages :
          LET pkg == fargs.build_packages[i]
              names == Names(fargs.lcg_packages)
          IN  /\ ~ExactMatch(pkg, names)
              /\ CaseInsensitiveMatch(pkg, names) \/ AliasMatch(pkg, names)

\* C16: the missing list is the same for two mappings with the same keys
\* inserted in different orders.
C16_InsertionOrderIndependent ==
    fres.op = "missing" => fres.first = fres.second

\* Two keys that differ only in case, in two orders, and a package missing.
C16_Witness ==
    /\ fres.op = "missing"
    /\ fargs.lcg_packages # fargs.other
    /\ \E i, j \in DOMAIN fargs.lcg_packages :
          /\ i # j
          /\ Lower(fargs.lcg_packages[i][1]) = Lower(fargs.lcg_packages[j][1])
    /\ fres.first # << >> /\ fres.first # fargs.build_packages


---------------------------------------------------------------------------
(* The pinned-requirement parsers                                          *)

MaxLine == 3

\* [A-Za-z0-9_-] and [=~<>!], on the characters of the model.
NameChars == {"n", "x", "1", "2", "_", "-"}
OperatorChars == {"=", "~", "<", ">", "!"}

\* The length of the longest prefix of s made of the characters of cs.
RECURSIVE PrefixLen(_, _)
PrefixLen(s, cs) ==
    IF s = << >> \/ Head(s) \notin cs THEN 0 ELSE 1 + PrefixLen(Tail(s), cs)

Drop(s, n) == SubSeq(s, n + 1, Len(s))
Take(s, n) == SubSeq(s, 1, n)

\* The first index at which `sub` occurs in s, 0 when it does not.
Find(s, sub) ==
    LET at == {i \in 1..(Len(s) - Len(sub) + 1) : SubSeq(s, i, i + Len(sub) - 1) = sub}
    IN  IF at = {} THEN 0 ELSE CHOOSE i \in at : \A j \in at : i <= j

\* parse_py_deps of src/sbomGenerator.py: the records one line adds.
parse_py_deps_line(raw) ==
    LET line == Strip(raw)
        i == Find(line, <<"=", "=">>)
    IN  IF line = << >> THEN << >>
        ELSE IF i > 0
        THEN << Dependency(Strip(Take(line, i - 1)), Some(Strip(Drop(line, i + 1))),
                           "pyDep.txt", "") >>
        ELSE << Dependency(Strip(line), PyNone, "pyDep.txt", "") >>

NoMatch == [ok |-> FALSE, name |-> << >>, operator |-> << >>, version_spec |-> << >>]

\* re.match(r'^([A-Za-z0-9_-]+)(?:\[[^\]]*\])?([=~<>!]+)(.+)$', line): the
\* name is the longest run of name characters; extras are taken when a
\* bracket pair follows; the operator is the longest run of operator
\* characters that leaves a character for the last group.
PackageMatch(line) ==
    LET n == PrefixLen(line, NameChars)
        after_name == Drop(line, n)
        close == Find(after_name, <<"]">>)
        after_extras == IF after_name # << >> /\ Head(after_name) = "[" /\ close > 0
                        THEN Drop(after_name, close) ELSE after_name
        run == PrefixLen(after_extras, OperatorChars)
        op_len == IF run = Len(after_extras) THEN run - 1 ELSE run
    IN  IF n = 0 \/ op_len < 1 THEN NoMatch
        ELSE [ok |-> TRUE, name |-> Take(line, n),
              operator |-> Take(after_extras, op_len),
              version_spec |-> Drop(after_extras, op_len)]

\* re.sub(r'\s*#.*$', '', version_spec): the text before the first '#' and
\* the blanks in front of it.
RemoveTrailingComment(version_spec) ==
    LET h == Find(version_spec, <<"#">>)
    IN  IF h = 0 THEN version_spec ELSE RStrip(Take(version_spec, h - 1))

\* Dependency.__post_init__ of src/generate_sbom.py
PostInit(dep) ==
    IF Falsy(dep.version) THEN dep ELSE [dep EXCEPT !.version = Some(Strip(@.s))]

\* parse_requirements_file of src/generate_sbom.py: the records one line adds.
parse_requirements_file_line(raw) ==
    LET line == Strip(raw)
        match == PackageMatch(line)
        stripped == Strip(match.version_spec)
        version_spec == IF stripped # << >>
                        THEN Strip(RemoveTrailingComment(stripped)) ELSE stripped
        h == Find(line, <<"#">>)
        package_name == Strip(IF h = 0 THEN line ELSE Take(line, h - 1))
    IN  IF line = << >> \/ Head(line) = "#" THEN << >>
        ELSE IF match.ok
        THEN << PostInit(Dependency(match.name,
                             IF version_spec # << >>
                             THEN Some(match.operator \o version_spec) ELSE PyNone,
                             "requirements.txt", "requirements.txt")) >>
        ELSE IF package_name # << >>
        THEN << PostInit(Dependency(package_name, PyNone,
                                    "requirements.txt", "requirements.txt")) >>
        ELSE << >>


\* The characters of a requirements line in the model.
LineChars == {"n", "1", "=", "#", " ", "[", "]"}
Texts == UNION {[1..k -> LineChars] : k \in 0..MaxLine}

\* A line written as name, extras, ==, version and an inline comment.
Pin(name, extras, version, comment) ==
    [name |-> name, extras |-> extras, version |-> version, comment |-> comment]
PinText(pin) == pin.name \o pin.extras \o <<"=", "=">> \o pin.version \o pin.comment
PinPool ==
    {Pin(<<"n">>, e, v, c) :
        e \in {<< >>, <<"[", "x", "]">>},
        v \in {<<"1">>, <<"1", ".", "2">>},
        c \in {<< >>, <<" ", "#", "x">>}}

\* An entry of the file: a text, and the pin it was written from (if any).
NoPin == [name |-> << >>]
Entry(text, pin) == [text |-> text, pin |-> pin]
EntryPool == {Entry(t, NoPin) : t \in Texts} \cup {Entry(PinText(p), p) : p \in PinPool}

FirstEntry == Entry(<<"n", "=", "=", "1">>, Pin(<<"n">>, << >>, <<"1">>, << >>))

\* A requirements file of one or two lines, read by both parsers.
InitReq ==
    /\ GateInit /\ project = "StatAnalysis"
    /\ fargs = NoArgs /\ fres = NoArgs
    /\ \E e \in EntryPool : \E lines \in {<<e>>, <<FirstEntry, e>>} :
          gen = [op |-> "requirements", lines |-> lines,
                 py_next |-> 1, py |-> {}, req_next |-> 1, req |-> {}]

\* parse_py_deps: the next line of the loop.
PyDepsLine ==
    /\ gen.op = "requirements" /\ gen.py_next <= Len(gen.lines)
    /\ gen' = [gen EXCEPT !.py_next = @ + 1,
                  !.py = AddAll(@, parse_py_deps_line(gen.lines[gen.py_next].text))]
    /\ GenFrame

\* parse_requirements_file: the next line of the loop.
RequirementsLine ==
    /\ gen.op = "requirements" /\ gen.req_next <= Len(gen.lines)
    /\ gen' = [gen EXCEPT !.req_next = @ + 1,
                  !.req = AddAll(@, parse_requirements_file_line(
                                        gen.lines[gen.req_next].text))]
    /\ GenFrame

NextReq == PyDepsLine \/ RequirementsLine
SpecReq == InitReq /\ [][NextReq]_vars

\* A blank line, or a line that starts with '#' (after leading blanks).
Skipped(text) == Strip(text) = << >> \/ Head(Strip(text)) = "#"

\* C17: neither parser adds a record for a blank line or a '#' line.
C17_CommentsSkipped ==
    [][gen.op = "requirements" /\ gen'.op = "requirements" =>
        /\ (gen'.py_next # gen.py_next /\ Skipped(gen.lines[gen.py_next].text))
              => gen'.py = gen.py
        /\ (gen'.req_next # gen.req_next /\ Skipped(gen.lines[gen.req_next].text))
              => gen'.req = gen.req]_vars

\* C18: for a line name==version, with or without extras and with or without
\* an inline comment, parse_requirements_file adds the record of that name
\* whose version is the version token alone.
C18_PinnedVersion ==
    gen.op = "requirements" =>
        \A i \in 1..(gen.req_next - 1) :
            gen.lines[i].pin # NoPin =>
                \E d \in gen.req :
                    /\ d.name = gen.lines[i].pin.name
                    /\ d.version = Some(gen.lines[i].pin.version)


---------------------------------------------------------------------------
(* The side files cppDep.txt and pyDep.txt and the parsers that write them *)

MaxRuns == 2

\* A line of a side file is its text without the newline: a sequence of
\* symbols, a package name counting as one symbol.
EntryText(name, version) == <<name, ":", " ">> \o version

\* version.replace("_", ".")
ReplaceUnderscore(version) ==
    [i \in DOMAIN version |-> IF version[i] = "_" THEN "." ELSE version[i]]

\* A CMakeLists.txt of an AnalysisBase external, told by what is found in it:
\* the captures of the package's own patterns and of the generic patterns,
\* the (name, version) pairs of the two re.findall of PyAnalysis, and the
\* capture of the one pattern src/AnalysisBase/sbomGenerator.py has for it.
CMakeFile(specific, generic, sources, assigned, line) ==
    [specific |-> specific, generic |-> generic,
     sources |-> sources, assigned |-> assigned, line |-> line]

\* if entry not in existing_entries: outf.write(entry + "\n"); existing_entries.add(entry)
RECURSIVE WriteNew(_, _, _)
WriteNew(entries, out, existing_entries) ==
    IF entries = << >> THEN [out |-> out, existing_entries |-> existing_entries]
    ELSE IF Head(entries) \in existing_entries
    THEN WriteNew(Tail(entries), out, existing_entries)
    ELSE WriteNew(Tail(entries), Append(out, Head(entries)),
                  existing_entries \cup {Head(entries)})

\* The pinned lines of the requirement files present, as (name, version).
RECURSIVE Pins(_, _)
Pins(reqs, i) ==
    IF i > Len(reqs) THEN << >>
    ELSE (IF reqs[i].exists
          THEN LET pins == SelectSeq(reqs[i].lines, LAMBDA line : line.kind = "pin")
               IN  [k \in DOMAIN pins |-> <<pins[k].name, pins[k].version>>]
          ELSE << >>) \o Pins(reqs, i + 1)

EntriesOf(pairs) == [k \in DOMAIN pairs |-> EntryText(pairs[k][1], pairs[k][2])]

\* The entries one member of the filter list yields in parse_cmakelists of
\* backend/AnalysisBase.
EntriesFor(dep, dirs) ==
    IF ~DictHas(dirs, dep) THEN << >>
    ELSE LET d == DictGet(dirs, dep)
         IN  IF d.cmake.none /\ dep \notin {"PyModules", "PyAnalysis"} THEN << >>
             ELSE IF dep = "PyModules" THEN EntriesOf(Pins(d.reqs, 1))
             ELSE IF dep = "PyAnalysis"
             THEN (IF d.cmake.none THEN << >>
                   ELSE EntriesOf(d.cmake.s.sources \o d.cmake.s.assigned))
             ELSE LET found_version == FoundVersion(d.cmake.s)
                  IN  IF Falsy(found_version) THEN << >>
                      ELSE << EntryText(dep, IF dep = "Boost"
                                             THEN ReplaceUnderscore(found_version.s)
                                             ELSE found_version.s) >>

RECURSIVE CmakelistsLoop(_, _, _, _)
CmakelistsLoop(deps, dirs, out, existing_entries) ==
    IF deps = << >> THEN out
    ELSE LET w == WriteNew(EntriesFor(Head(deps), dirs), out, existing_entries)
         IN  CmakelistsLoop(Tail(deps), dirs, w.out, w.existing_entries)

\* parse_cmakelists of backend/AnalysisBase: cppDep.txt after the run.
AnalysisBase_parse_cmakelists(deps, dirs, cpp_file) ==
    Lines(CmakelistsLoop(deps, dirs, cpp_file.lines,
                         {Strip(cpp_file.lines[i]) : i \in DOMAIN cpp_file.lines}))

\* sorted(found) of a set of (name, version) pairs, written to the end of
\* pyDep.txt when there is any.
AppendFound(py_file, found) ==
    IF found = {} THEN py_file
    ELSE Lines(py_file.lines \o EntriesOf(Sorted(CHOOSE s \in Orders(found) : TRUE)))

SeqRange(s) == {s[i] : i \in DOMAIN s}

\* parse_python_packages_1: the requirement files of the working directory.
parse_python_packages_1(reqs, py_file) == AppendFound(py_file, SeqRange(Pins(reqs, 1)))

\* parse_python_packages_2: CMakeLists.txt of the working directory.
parse_python_packages_2(cmake, py_file) ==
    IF cmake.none THEN py_file
    ELSE AppendFound(py_file, SeqRange(cmake.s.sources) \cup SeqRange(cmake.s.assigned))

\* parse_cmakelists of src/AnalysisBase: its list of packages.
LegacyDeps == <<"Boost", "Eigen", "Root", "XRootD", "dcap", "Davix", "TBB", "nlohmann_json">>

RECURSIVE LegacyLoop(_, _, _)
LegacyLoop(deps, dirs, out) ==
    IF deps = << >> THEN out
    ELSE LET dep == Head(deps)
             match == IF DictHas(dirs, dep) /\ ~DictGet(dirs, dep).cmake.none
                      THEN DictGet(dirs, dep).cmake.s.line ELSE PyNone
         IN  LegacyLoop(Tail(deps), dirs,
                 IF match.none THEN out
                 ELSE Append(out, EntryText(dep, IF dep = "Boost"
                                                 THEN ReplaceUnderscore(match.s)
                                                 ELSE match.s)))

Legacy_parse_cmakelists(dirs, cpp_file) == Lines(LegacyLoop(LegacyDeps, dirs, cpp_file.lines))


\* Inputs: the filter list and the checkout of the externals.
FilterPool == {"HDF5", "Boost", "PyModules", "PyAnalysis"}
NoCaptures == <<PyNone, PyNone, PyNone, PyNone>>
AnalysisReqs ==
    << Lines(<< ReqLine("pin", "numpy", <<"1">>), ReqLine("comment", "", << >>) >>),
       Lines(<< ReqLine("pin", "numpy", <<"1">>), ReqLine("pin", "boost", <<"2">>) >>) >>
PyAnalysisCMake ==
    CMakeFile(<< >>, NoCaptures, << <<"numpy", <<"1">>>> >>,
              << <<"numpy", <<"1">>>>, <<"boost", <<"2">>>> >>, PyNone)
HDF5DirPool ==
    { << >>,
      << <<"HDF5", PkgDir(Some(CMakeFile(<<Some(<<"1">>), PyNone>>, NoCaptures,
                                         << >>, << >>, PyNone)), NoReqs)>> >>,
      << <<"HDF5", PkgDir(Some(CMakeFile(<<Some(<<"1", " ">>), PyNone>>, NoCaptures,
                                         << >>, << >>, PyNone)), NoReqs)>> >> }
BoostDirPool ==
    { << >>,
      << <<"Boost", PkgDir(Some(CMakeFile(<<Some(<<"1", "_", "2">>)>>, NoCaptures,
                                          << >>, << >>, Some(<<"1", "_", "2">>))),
                           NoReqs)>> >> }
PyDirs ==
    << <<"PyModules", PkgDir(PyNone, AnalysisReqs)>>,
       <<"PyAnalysis", PkgDir(Some(PyAnalysisCMake), NoReqs)>> >>
CppStartPool == {NoLines, Lines(<< EntryText("Boost", <<"1", ".", "2">>) >>)}

InitSide ==
    /\ GateInit /\ project = "AnalysisBase" /\ log = NoLog
    /\ fargs = NoArgs /\ fres = NoArgs
    /\ \E deps \in SeqsOf(FilterPool, MaxPackages), h \in HDF5DirPool,
          b \in BoostDirPool, cpp_file \in CppStartPool :
          gen = [op |-> "side", deps |-> deps, dirs |-> h \o b \o PyDirs,
                 reqs |-> AnalysisReqs, cmake |-> Some(PyAnalysisCMake),
                 cpp_file |-> cpp_file, py_file |-> NoLines, legacy_cpp_file |-> NoLines,
                 runs |-> [cmakelists |-> 0, python_1 |-> 0, python_2 |-> 0, legacy |-> 0]]

\* One run of parse_cmakelists of backend/AnalysisBase.
ParseCmakelists ==
    /\ gen.op = "side" /\ gen.runs.cmakelists < MaxRuns
    /\ gen' = [gen EXCEPT !.runs.cmakelists = @ + 1,
                  !.cpp_file = AnalysisBase_parse_cmakelists(gen.deps, gen.dirs, @)]
    /\ GenFrame

ParsePythonPackages1 ==
    /\ gen.op = "side" /\ gen.runs.python_1 < MaxRuns
    /\ gen' = [gen EXCEPT !.runs.python_1 = @ + 1,
                  !.py_file = parse_python_packages_1(gen.reqs, @)]
    /\ GenFrame

ParsePythonPackages2 ==
    /\ gen.op = "side" /\ gen.runs.python_2 < MaxRuns
    /\ gen' = [gen EXCEPT !.runs.python_2 = @ + 1,
                  !.py_file = parse_python_packages_2(gen.cmake, @)]
    /\ GenFrame

\* One run of parse_cmakelists of src/AnalysisBase.
LegacyParseCmakelists ==
    /\ gen.op = "side" /\ gen.runs.legacy < MaxRuns
    /\ gen' = [gen EXCEPT !.runs.legacy = @ + 1,
                  !.legacy_cpp_file = Legacy_parse_cmakelists(gen.dirs, @)]
    /\ GenFrame

NextSide ==
    ParseCmakelists \/ ParsePythonPackages1 \/ ParsePythonPackages2 \/ LegacyParseCmakelists
SpecSide == InitSide /\ [][NextSide]_vars

\* The lines before a run are still there, in their places.
Kept(before, after) ==
    /\ Len(before.lines) <= Len(after.lines)
    /\ SubSeq(after.lines, 1, Len(before.lines)) = before.lines

\* No line written by the run has the text of a line before it in the file.
NoRepeat(before, after) ==
    \A k \in (Len(before.lines) + 1)..Len(after.lines) :
        \A j \in 1..(k - 1) : after.lines[j] # after.lines[k]

\* C19: a run of parse_cmakelists keeps every line of cppDep.txt in its
\* place, writes no line whose text is already in the file, and a second run
\* on the same checkout and filter list writes nothing.
C19_CmakelistsDeduplicates ==
    [][(gen.op = "side" /\ gen'.op = "side"
           /\ gen'.runs.cmakelists = gen.runs.cmakelists + 1)
        => /\ Kept(gen.cpp_file, gen'.cpp_file)
           /\ NoRepeat(gen.cpp_file, gen'.cpp_file)
           /\ gen.runs.cmakelists >= 1 => gen'.cpp_file.lines = gen.cpp_file.lines]_vars

\* C20: the parsers that write pyDep.txt, and parse_cmakelists of
\* src/AnalysisBase, write no line whose text is already in the side file.
C20_SideFilesDeduplicate ==
    [][(gen.op = "side" /\ gen'.op = "side")
        => /\ NoRepeat(gen.py_file, gen'.py_file)
           /\ NoRepeat(gen.legacy_cpp_file, gen'.legacy_cpp_file)]_vars

---------------------------------------------------------------------------
(* The component list of a manifest, rendered and read back                *)

Unknown == <<"u", "n", "k", "n", "o", "w", "n">>

\* dep.version or "unknown" (src/sbomGenerator.py)
VersionOrUnknown(dep) == IF Falsy(dep.version) THEN Unknown ELSE dep.version.s

\* generate_cyclonedx_sbom of src/sbomGenerator.py: one component per
\* dependency, its version dep.version or "unknown"; the metadata carries a
\* tool and no property.
Legacy_generate_cyclonedx_sbom(deps, t) ==
    LET pairs == {<<d.name, VersionOrUnknown(d)>> : d \in deps}
        seq == Sorted(CHOOSE s \in Orders(pairs) : TRUE)
    IN  Manifest([i \in DOMAIN seq |-> Component(seq[i][1], seq[i][2])],
                 << >>, t, t)

\* The (name, version) pairs of the components of a manifest, as
\* json.loads gives them: every version is a string.
ComponentPairs(sbom_data) ==
    {<<sbom_data.components[i].name, Some(sbom_data.components[i].version)>> :
        i \in DOMAIN sbom_data.components}

\* The (name, version) pairs of a dependency set.
DependencyPairs(deps) == {<<d.name, d.version>> : d \in deps}

RoundTripPool ==
    {Dependency(n, v, "cppDep.txt", "") :
        n \in {"boost", "ROOT", "numpy"},
        v \in {PyNone, Some(<<"1">>), Some(<<"2">>), Some(Undefined)}}

InitRoundTrip ==
    /\ GateInit /\ project = "Athena" /\ log = NoLog
    /\ fres = NoArgs /\ gen = NoGen
    /\ \E deps \in {D \in SUBSET RoundTripPool : Cardinality(D) <= MaxComponents},
          t \in 1..MaxClock :
          fargs = [op |-> "roundtrip", deps |-> deps, t |-> t]

\* generate_cyclonedx_sbom of backend/Athena, then json.loads
RoundTrip ==
    /\ fargs.op = "roundtrip" /\ fres.op = "none"
    /\ fres' = [op |-> "roundtrip", generator |-> "Athena",
                pairs |-> ComponentPairs(Athena_generate_cyclonedx_sbom(
                              fargs.deps, DefaultVersion, fargs.t))]
    /\ UNCHANGED <<Gate, fargs, gen>>

\* generate_cyclonedx_sbom of src/sbomGenerator.py, then json.loads
LegacyRoundTrip ==
    /\ fargs.op = "roundtrip" /\ fres.op = "none"
    /\ fres' = [op |-> "roundtrip", generator |-> "StatAnalysis",
                pairs |-> ComponentPairs(Legacy_generate_cyclonedx_sbom(
                              fargs.deps, fargs.t))]
    /\ UNCHANGED <<Gate, fargs, gen>>

NextRoundTrip == RoundTrip \/ LegacyRoundTrip
SpecRoundTrip == InitRoundTrip /\ [][NextRoundTrip]_vars

\* C21: the (name, version) pairs read back from the rendered manifest are
\* exactly the (name, version) pairs of the dependency set, records without
\* a version and names at several versions included.
C21_RoundTrip ==
    fres.op = "roundtrip" => fres.pairs = DependencyPairs(fargs.deps)

---------------------------------------------------------------------------
(* The top-level key order of the manifest (src/generate_sbom.py)          *)

MaxKeys == 4

desired_order ==
    << "$schema", "bomFormat", "specVersion", "serialNumber", "version",
       "metadata", "components" >>

\* A JSON text is modelled by the value json.loads gives for it: an object
\* is the list of its (key, value) items in document order, keys distinct.
JsonObject(items) == [kind |-> "object", items |-> items]
JsonArray == [kind |-> "array", items |-> << >>]

\* for key in desired_order: if key in data: ordered[key] = data[key]
RECURSIVE KnownFirst(_, _, _)
KnownFirst(data, i, ordered) ==
    IF i > Len(desired_order) THEN ordered
    ELSE KnownFirst(data, i + 1,
            IF DictHas(data, desired_order[i])
            THEN DictSet(ordered, desired_order[i], DictGet(data, desired_order[i]))
            ELSE ordered)

\* A mutant: the keys outside desired_order are not copied.
Rest_known_only(data, i, ordered) == ordered

\* for key, value in data.items(): if key not in ordered: ordered[key] = value
RECURSIVE Rest(_, _, _)
Rest(data, i, ordered) ==
    IF i > Len(data) THEN ordered
    ELSE Rest(data, i + 1,
            IF ~DictHas(ordered, data[i][1])
            THEN DictSet(ordered, data[i][1], data[i][2])
            ELSE ordered)

\* The reordering at the end of generate_cyclonedx_sbom: data.items() of a
\* value that is not an object raises, and the raw text is returned.
ReorderTopLevel(raw_json) ==
    IF raw_json.kind # "object" THEN raw_json
    ELSE JsonObject(Rest(raw_json.items, 1, KnownFirst(raw_json.items, 1, << >>)))

KeyPool == {"$schema", "bomFormat", "version", "components", "signature", "dependencies"}

\* Root objects of at most MaxKeys keys, in every document order.
RootPool ==
    UNION {{[i \in DOMAIN ks |-> <<ks[i], v[i]>>] : v \in [DOMAIN ks -> 1..2]} :
              ks \in ListsOf(KeyPool, MaxKeys)}

InitReorder ==
    /\ GateInit /\ project = "StatAnalysis"
    /\ fres = NoArgs /\ gen = NoGen
    /\ \E raw_json \in {JsonObject(items) : items \in RootPool} \cup {JsonArray} :
          fargs = [op |-> "reorder", raw_json |-> raw_json]

Reorder ==
    /\ fargs.op = "reorder" /\ fres.op = "none"
    /\ fres' = [op |-> "reorder", ordered |-> ReorderTopLevel(fargs.raw_json)]
    /\ UNCHANGED <<Gate, fargs, gen>>

SpecReorder == InitReorder /\ [][Reorder]_vars

Known(key) == \E i \in DOMAIN desired_order : desired_order[i] = key
KeysOf(items) == [i \in DOMAIN items |-> items[i][1]]
IsKnownItem(item) == Known(item[1])
IsOtherItem(item) == ~Known(item[1])

\* C22: the reordered root object holds exactly the items of the serialized
\* one; the known keys present come first, in the order of desired_order,
\* and every other key follows them in its original relative order.
C22_ReorderPreserves ==
    (fres.op = "reorder" /\ fargs.raw_json.kind = "object") =>
        LET data == fargs.raw_json.items
            out == fres.ordered.items
            present(key) == DictHas(data, key)
            known == SelectSeq(out, IsKnownItem)
        IN  /\ fres.ordered.kind = "object"
            /\ Len(out) = Len(data)
            /\ {out[i] : i \in DOMAIN out} = {data[i] : i \in DOMAIN data}
            /\ KeysOf(known) = SelectSeq(desired_order, present)
            /\ out = known \o SelectSeq(data, IsOtherItem)

C22_Witness ==
    /\ fres.op = "reorder" /\ fargs.raw_json.kind = "object"
    /\ KeysOf(fargs.raw_json.items) = <<"signature", "version", "dependencies", "$schema">>
    /\ KeysOf(fres.ordered.items) = <<"$schema", "version", "signature", "dependencies">>

---------------------------------------------------------------------------
(* The priority of the version patterns                                    *)

\* len(patterns.get(pkg, [])) for the packages of the model.
AthenaPatternCount(pkg) == IF pkg = "Acts" THEN 2 ELSE 0
AnalysisBasePatternCount(dep) ==
    CASE dep = "HDF5" -> 2
      [] dep = "Boost" -> 1
      [] OTHER -> 0

GenericPatternCount == 4

\* What a pattern captures in a file: nothing, or a version (every capture
\* group of the patterns is one or more characters long).
SpecificCaptures == {PyNone, Some(<<"1">>), Some(<<"1", "_", "2">>)}
GenericCaptures == {PyNone, Some(<<"2">>), Some(<<"3", "_", "4">>)}

InitPriority ==
    /\ GateInit /\ project \in {"Athena", "AnalysisBase"} /\ log = NoLog
    /\ fres = NoArgs /\ gen = NoGen
    /\ \E pkg \in (IF project = "Athena" THEN {"Acts", "Boost"}
                                         ELSE {"HDF5", "Boost", "Acts"}) :
       \E specific \in [1..(IF project = "Athena" THEN AthenaPatternCount(pkg)
                            ELSE AnalysisBasePatternCount(pkg)) -> SpecificCaptures],
          generic \in [1..GenericPatternCount -> GenericCaptures] :
          fargs = [op |-> "priority", pkg |-> pkg,
                   specific |-> specific, generic |-> generic]

\* parse_atlasexternals_packages([pkg]) on a checkout that has the package.
ExternalsVersion ==
    /\ fargs.op = "priority" /\ fres.op = "none" /\ project = "Athena"
    /\ LET content == CMakeLists(fargs.specific, fargs.generic)
           tree == Tree(<< <<fargs.pkg, PkgDir(Some(content), NoReqs)>> >>)
           packages == parse_atlasexternals_packages(<<fargs.pkg>>, tree, {}).packages
       IN  fres' = [op |-> "priority",
                    recorded |-> IF DictHas(packages, fargs.pkg)
                                 THEN Some(DictGet(packages, fargs.pkg)) ELSE PyNone]
    /\ UNCHANGED <<Gate, fargs, gen>>

\* parse_cmakelists of backend/AnalysisBase on the filter list [dep] and no
\* cppDep.txt: the version of the line written.
CmakelistsVersion ==
    /\ fargs.op = "priority" /\ fres.op = "none" /\ project = "AnalysisBase"
    /\ LET content == CMakeFile(fargs.specific, fargs.generic, << >>, << >>, PyNone)
           dirs == << <<fargs.pkg, PkgDir(Some(content), NoReqs)>> >>
           cpp_file == AnalysisBase_parse_cmakelists(<<fargs.pkg>>, dirs, NoLines)
       IN  fres' = [op |-> "priority",
                    recorded |-> IF cpp_file.lines = << >> THEN PyNone
                                 ELSE Some(Drop(cpp_file.lines[1], 3))]
    /\ UNCHANGED <<Gate, fargs, gen>>

NextPriority == ExternalsVersion \/ CmakelistsVersion
SpecPriority == InitPriority /\ [][NextPriority]_vars

\* The package's specific patterns followed by the generic patterns.
OrderedCaptures == fargs.specific \o fargs.generic
Matches(i) == ~OrderedCaptures[i].none
FirstMatch == CHOOSE i \in DOMAIN OrderedCaptures :
                  Matches(i) /\ \A j \in 1..(i - 1) : ~Matches(j)
Normalized(version) ==
    IF project = "AnalysisBase" /\ fargs.pkg = "Boost"
    THEN ReplaceUnderscore(version) ELSE version

\* C23 (as amended): the version recorded for a package is the capture of
\* the first pattern that matches in the list of the package's specific
\* patterns followed by the four generic patterns -- for Boost in the
\* AnalysisBase parser with every "_" replaced by "." --, and no version is
\* recorded when no pattern matches.
C23_FirstPatternWins ==
    fres.op = "priority" =>
        IF \E i \in DOMAIN OrderedCaptures : Matches(i)
        THEN fres.recorded = Some(Normalized(OrderedCaptures[FirstMatch].s))
        ELSE fres.recorded = PyNone

\* A specific and a generic pattern both match, with different captures.
C23_Witness ==
    /\ fres.op = "priority"
    /\ Len(fargs.specific) = 2
    /\ fargs.specific[1].none /\ ~fargs.specific[2].none
    /\ ~fargs.generic[1].none
    /\ fres.recorded = fargs.specific[2]

\* C23 (as stated): the version recorded is the capture itself.
C23_CaptureRecorded ==
    fres.op = "priority" =>
        IF \E i \in DOMAIN OrderedCaptures : Matches(i)
        THEN fres.recorded = OrderedCaptures[FirstMatch]
        ELSE fres.recorded = PyNone

---------------------------------------------------------------------------
(* The fetch of the LCG page                                               *)

\* What urlopen(url, timeout=30), response.read() and decode give: a page,
\* urllib.error.URLError (raised while connecting: refused, unreachable,
\* timed out), or an error that is no URLError (a timeout or a short body
\* while the response is read, an undecodable body).
Fetched(page) == [outcome |-> "page", page |-> page]
URLError == [outcome |-> "URLError", page |-> << >>]
ReadError == [outcome |-> "other error", page |-> << >>]

\* A page is told by what the patterns find in it: whether it is empty,
\* whether it has the table with id="release", the (name, version) rows of
\* row_pattern and the links of the alternative patterns, in document order.
Page(table, rows, pkg_links, ver_links) ==
    [empty |-> FALSE, table |-> table, rows |-> rows,
     pkg_links |-> pkg_links, ver_links |-> ver_links]
EmptyPage == [empty |-> TRUE, table |-> FALSE, rows |-> << >>,
              pkg_links |-> << >>, ver_links |-> << >>]

\* The local copy of the page: absent, unreadable, or a page.
NoFallback == [exists |-> FALSE, readable |-> FALSE, page |-> EmptyPage]
Unreadable == [exists |-> TRUE, readable |-> FALSE, page |-> EmptyPage]
Fallback(page) == [exists |-> TRUE, readable |-> TRUE, page |-> page]

\* packages[pkg_name] = version for every row, in order.
RECURSIVE FromRows(_, _)
FromRows(rows, packages) ==
    IF rows = << >> THEN packages
    ELSE FromRows(Tail(rows), DictSet(packages, Head(rows)[1], Head(rows)[2]))

\* The alternative pattern: the i-th package link with the i-th version link.
Paired(pkg_links, ver_links) ==
    LET n == IF Len(pkg_links) < Len(ver_links) THEN Len(pkg_links) ELSE Len(ver_links)
    IN  [i \in 1..n |-> <<pkg_links[i], ver_links[i]>>]

\* The parsing half of fetch_and_parse_lcg_packages; html_content is None
\* (PyNone) or a page.
ParseHtml(html_content) ==
    IF html_content.none \/ html_content.s.empty THEN << >>
    ELSE IF ~html_content.s.table THEN << >>
    ELSE LET packages == FromRows(html_content.s.rows, << >>)
         IN  IF packages = << >>
             THEN FromRows(Paired(html_content.s.pkg_links, html_content.s.ver_links), << >>)
             ELSE packages

\* fetch_and_parse_lcg_packages: `except urllib.error.URLError` catches that
\* error alone; any other error of the fetch leaves the function.
fetch_and_parse_lcg_packages(response, fallback_html_path, fallback_file) ==
    CASE response.outcome = "page" ->
            [raised |-> FALSE, packages |-> ParseHtml(Some(response.page))]
      [] response.outcome = "URLError" ->
            [raised |-> FALSE,
             packages |-> ParseHtml(
                 IF ~fallback_html_path.none /\ fallback_html_path.s # << >>
                    /\ fallback_file.exists /\ fallback_file.readable
                 THEN Some(fallback_file.page) ELSE PyNone)]
      [] OTHER -> [raised |-> TRUE, packages |-> << >>]

PagePool ==
    { EmptyPage,
      Page(FALSE, << >>, << >>, << >>),
      Page(TRUE, << <<"boost", <<"1">>>>, <<"boost", <<"2">>>> >>,
           <<"boost", "boost">>, << <<"1">>, <<"2">> >>),
      Page(TRUE, << >>, <<"numpy", "boost">>, << <<"1">> >>) }
ResponsePool == {Fetched(p) : p \in PagePool} \cup {URLError, ReadError}
FallbackPool == {NoFallback, Unreadable} \cup {Fallback(p) : p \in PagePool}
FallbackPath == <<"E", "x", "a", "m", "p", "l", "e">>

InitFetch ==
    /\ GateInit /\ project = "Athena" /\ log = NoLog
    /\ fargs = NoArgs /\ fres = NoArgs
    /\ \E build_info \in BuildLogPool, response \in ResponsePool,
          fallback_file \in FallbackPool, tree \in TreePool :
          gen = [op |-> "athena", stage |-> "fetch", build_info |-> build_info,
                 response |-> response, fallback_file |-> fallback_file,
                 lcg_packages |-> << >>, tree |-> tree, cpp_file |-> NoLines,
                 dependencies |-> {}, missing_packages |-> << >>]

\* generate, to the records of the remote index, the fetch included; an
\* error that leaves fetch_and_parse_lcg_packages leaves generate too.
GenFetch ==
    /\ gen.op = "athena" /\ gen.stage = "fetch"
    /\ IF Falsy(gen.build_info.lcg_version) \/ Falsy(gen.build_info.platform)
       THEN gen' = [gen EXCEPT !.stage = "done"]
       ELSE LET r == fetch_and_parse_lcg_packages(gen.response, Some(FallbackPath),
                                                  gen.fallback_file)
            IN  IF r.raised
                THEN gen' = [gen EXCEPT !.stage = "raised"]
                ELSE gen' = [gen EXCEPT !.stage = "missing",
                                !.lcg_packages = r.packages,
                                !.dependencies = AddAll(@, RecordsOf(r.packages, "LCG Website"))]
    /\ GenFrame

NextFetch == GenFetch \/ GenMissing \/ GenExternals \/ GenCpp
SpecFetch == InitFetch /\ [][NextFetch]_vars

FetchCalled ==
    /\ gen.op = "athena" /\ gen.stage # "fetch"
    /\ ~Falsy(gen.build_info.lcg_version) /\ ~Falsy(gen.build_info.platform)

\* C24: after a fetch that failed, the run has not been left by the error,
\* and the mapping is that of the local copy of the page when there is a
\* readable one, and empty otherwise.
C24_FetchFailureContained ==
    (FetchCalled /\ gen.response.outcome # "page") =>
        /\ gen.stage # "raised"
        /\ gen.lcg_packages =
               IF gen.fallback_file.exists /\ gen.fallback_file.readable
               THEN ParseHtml(Some(gen.fallback_file.page)) ELSE << >>

---------------------------------------------------------------------------
(* The package section of the build log (Athena)                           *)

MaxLog == 5

\* The loop of parse_build_info over the stripped lines, from line i on.
\* Kinds of lines: "header" contains 'Package filtering rules read:',
\* "configuring" starts with '-- Configuring', "plus" matches
\* --\s+\+\s+External/(.+) with v holding the name, "minus" starts with '--   -',
\* "blank" is empty after strip().
RECURSIVE PackageSection(_, _, _, _)
PackageSection(lines, i, in_package_section, packages) ==
    IF i > Len(lines) THEN packages
    ELSE IF lines[i].kind = "header"
    THEN PackageSection(lines, i + 1, TRUE, packages)
    ELSE IF ~in_package_section
    THEN PackageSection(lines, i + 1, FALSE, packages)
    ELSE IF lines[i].kind = "configuring" \/ (lines[i].kind = "blank" /\ packages # << >>)
    THEN packages
    ELSE IF lines[i].kind = "plus"
    THEN PackageSection(lines, i + 1, TRUE, Append(packages, lines[i].v[1]))
    ELSE IF lines[i].kind = "minus"
    THEN packages
    ELSE PackageSection(lines, i + 1, TRUE, packages)

\* result['packages'] of parse_build_info of backend/Athena.
Athena_parse_build_info_packages(logfile) ==
    IF ~logfile.exists THEN << >> ELSE PackageSection(logfile.lines, 1, FALSE, << >>)

SectionLinePool ==
    { Line("header", << >>, << >>), Line("plus", <<"Acts">>, << >>),
      Line("plus", <<"Boost">>, << >>), Line("minus", << >>, << >>),
      Line("configuring", << >>, << >>), Line("blank", << >>, << >>), OtherLine }

InitSection ==
    /\ GateInit /\ project = "Athena" /\ log = NoLog
    /\ fres = NoArgs /\ gen = NoGen
    /\ \E logfile \in {NoFile} \cup {LogFile(l) : l \in SeqsOf(SectionLinePool, MaxLog)} :
          fargs = [op |-> "section", logfile |-> logfile]

ParsePackages ==
    /\ fargs.op = "section" /\ fres.op = "none"
    /\ fres' = [op |-> "section", packages |-> Athena_parse_build_info_packages(fargs.logfile)]
    /\ UNCHANGED <<Gate, fargs, gen>>

SpecSection == InitSection /\ [][ParsePackages]_vars

\* The first line after line i whose kind is in kinds; one past the end when
\* there is none.
FirstAfter(lines, i, kinds) ==
    IF \E j \in (i + 1)..Len(lines) : lines[j].kind \in kinds
    THEN CHOOSE j \in (i + 1)..Len(lines) :
             /\ lines[j].kind \in kinds
             /\ \A k \in (i + 1)..(j - 1) : lines[k].kind \notin kinds
    ELSE Len(lines) + 1

IsPlus(line) == line.kind = "plus"

\* C25: the package list is the names of the '+' lines between the header
\* and the first '-- Configuring' or '--   -' line after it, in file order.
C25_PackageSection ==
    (fres.op = "section" /\ fargs.logfile.exists) =>
        LET lines == fargs.logfile.lines
            header == FirstAfter(lines, 0, {"header"})
            end == FirstAfter(lines, header, {"configuring", "minus"})
            section == SelectSeq(SubSeq(lines, header + 1, end - 1), IsPlus)
        IN  fres.packages = [k \in DOMAIN section |-> section[k].v[1]]

---------------------------------------------------------------------------
(* The build information, rendered into the report and read back           *)

\* Values of the build log: what (.+) captures to the end of a stripped line.
LogValues == { <<"g">>, <<"g", " ", "1">>, <<"g", "|", "1">> }

\* Build logs: the compiler lines given or not, and the platform name on
\* its line or the log too short to have that line.
ReportLogPool ==
    {NoLog} \cup
    {LogFile([i \in 1..n |->
        CASE i = 1 -> l1
          [] i = 2 -> l2
          [] i = PlatformLineIndex + 1 -> l25
          [] OTHER -> OtherLine]) :
        n \in {2, PlatformLineIndex + 1},
        l1 \in {OtherLine} \cup {Line("c", v, << >>) : v \in LogValues},
        l2 \in {OtherLine} \cup {Line("cxx", v, << >>) : v \in LogValues},
        l25 \in {OtherLine, Line("plat", <<"x">>, << >>)}}

ReportDepPool ==
    { Dependency("Platform", Some(<<"1">>), "cppDep.txt", ""),
      Dependency("boost", Some(<<"1">>), "cppDep.txt", "") }

InitReport ==
    /\ GateInit /\ project = "AnalysisBase" /\ log = NoLog
    /\ fres = NoArgs /\ gen = NoGen
    /\ \E logfile \in ReportLogPool, deps \in SUBSET ReportDepPool :
          fargs = [op |-> "report", logfile |-> logfile, deps |-> deps]

\* create_sbom for AnalysisBase: parse_build_info and save_markdown_report
\* of one request, and the build information a later request reads back
\* from that report.
ReportRoundTrip ==
    /\ fargs.op = "report" /\ fres.op = "none"
    /\ \E order \in SortedDeps(fargs.deps) :
          LET build_info == AnalysisBase_parse_build_info(fargs.logfile)
              md == AnalysisBase_generate_markdown_report(
                        DefaultVersion, DefaultExternals, Info(build_info), order)
          IN  fres' = [op |-> "report", build_info |-> build_info,
                       recent_build_info |-> create_sbom_recent_build_info(File(md, 1))]
    /\ UNCHANGED <<Gate, fargs, gen>>

SpecReport == InitReport /\ [][ReportRoundTrip]_vars

ItemsOf(d) == {d[i] : i \in DOMAIN d}

\* C26: the build information read back from the report has the keys and
\* the values of the build information the report was rendered with.
C26_BuildInfoRoundTrip ==
    fres.op = "report" =>
        /\ ~fres.recent_build_info.isNone
        /\ ItemsOf(fres.recent_build_info.items) = ItemsOf(fres.build_info)

---------------------------------------------------------------------------
(* Requests of a type the server does not generate, and the working        *)
(* directory                                                               *)

\* A step of create_sbom: the handler moves, or its request is answered.
WebStep ==
    \/ \E p \in Web : pc'[p] # pc[p]
    \/ hist'.flip # hist.flip /\ hist'.last.kind \in WebKinds \cup {"athena_web"}

\* C27: a create_sbom request whose type is neither AnalysisBase nor
\* StatAnalysis is answered with an error in one step that changes no
\* version root, no candidate file, no build log and not the working
\* directory, and leaves no handler under way.
C27_InvalidTypeRejected ==
    [][(project \notin {"AnalysisBase", "StatAnalysis"} /\ WebStep) =>
          /\ hist'.last.outcome = "rejected"
          /\ fs' = fs /\ cand' = cand /\ log' = log /\ now' = now
          /\ cwd' = cwd
          /\ pc' = pc /\ loc' = loc]_vars

\* An Athena request was rejected with versions stored.
C27_Witness ==
    /\ project = "Athena"
    /\ hist.last.kind = "athena_web" /\ hist.last.outcome = "rejected"
    /\ fs["SBOMs"].exists /\ VersionNums(fs["SBOMs"].entries) # {}

\* C29: when no request is under way, the working directory is the one the
\* server had before the first request.
C29_CwdRestored ==
    AllIdle => cwd = BACKEND_DIR

---------------------------------------------------------------------------
(* Runs of main() alone, one after another                                 *)

InitMain == Init /\ project \in {"StatAnalysis", "Athena"}
NextMain == Environment \/ MainRun(AllIdle, NoFaults)
SpecMain == InitMain /\ [][NextMain]_vars

\* The signature main() computes for a stored version: that of its manifest
\* with, for Athena, the build information read back from its report.
StoredSignature(dir) ==
    get_sbom_signature(dir.files[MainJsonName(project)].data,
        IF project = "Athena"
        THEN Info(parse_build_info_from_markdown(
                      NamedFile(dir, with_suffix_md(MainJsonName(project)))))
        ELSE NoneInfo)

HoldsManifest(entries, n) ==
    /\ VName(n) \in DOMAIN entries
    /\ entries[VName(n)].isDir
    /\ HasFile(entries[VName(n)], MainJsonName(project))

\* C28: two version directories with consecutive numbers that both hold a
\* manifest have different signatures, and main() decides "duplicate" only
\* for a candidate whose content is that of the highest-numbered version (a
\* candidate equal to an older version only is not a duplicate).
C28_LatestOnly ==
    /\ [](\A n \in 1..MaxVersion :
            LET entries == Entries(fs["SBOMs"])
            IN  (AllIdle /\ HoldsManifest(entries, n) /\ HoldsManifest(entries, n + 1)) =>
                    StoredSignature(entries[VName(n)])
                        # StoredSignature(entries[VName(n + 1)]))
    /\ [][(hist'.flip # hist.flip /\ hist'.last.outcome = "duplicate") =>
             LET entries == Entries(fs["SBOMs"])
                 latest == Max(VersionNums(entries))
             IN  /\ VersionNums(entries) # {}
                 /\ HoldsManifest(entries, latest)
                 /\ Content(entries[VName(latest)].files[MainJsonName(project)].data)
                        = Content(cand.json.data)]_vars

---------------------------------------------------------------------------
(* The signature with no build information                                 *)

\* A manifest and a build information that is not empty.
InitEmpty ==
    /\ GateInit /\ project = "Athena" /\ log = NoLog
    /\ fres = NoArgs /\ gen = NoGen
    /\ \E components \in ListsOf(ComponentPool, MaxComponents),
          properties \in SeqsOf(PropertyPool, MaxProperties),
          items \in ListsOf(BuildItemPool, 2) \ {<< >>} :
          fargs = [op |-> "empty",
                   sbom_data |-> Manifest(components, properties, 1, 1),
                   build_info |-> Info(items)]

\* get_sbom_signature(sbom_data, {}), get_sbom_signature(sbom_data, None)
\* and get_sbom_signature(sbom_data, build_info).
SignatureEmpty ==
    /\ fargs.op = "empty" /\ fres.op = "none"
    /\ fres' = [op |-> "empty",
                empty |-> get_sbom_signature(fargs.sbom_data, Info(<< >>)),
                absent |-> get_sbom_signature(fargs.sbom_data, NoneInfo),
                given |-> get_sbom_signature(fargs.sbom_data, fargs.build_info)]
    /\ UNCHANGED <<Gate, fargs, gen>>

SpecEmpty == InitEmpty /\ [][SignatureEmpty]_vars

\* C30: the signature with build_info = {} is the signature with
\* build_info = None, and the signature with a build information that is not
\* empty differs from it.
C30_EmptyLikeAbsent ==
    fres.op = "empty" => fres.empty = fres.absent /\ fres.given # fres.absent

C30_Witness ==
    /\ fres.op = "empty"
    /\ fargs.sbom_data.components # << >>
    /\ Len(fargs.build_info.items) = 2
    /\ Len(fres.given) = 3 /\ Len(fres.empty) = 2

====
